---- MODULE Spec2Model ----
(***************************************************************************)
(* Verification model of soundcork: the proxy middleware with its circuit  *)
(* breaker (soundcork/proxy.py) and the recents codec (soundcork/marge.py, *)
(* soundcork/datastore.py).                                                *)
(***************************************************************************)
EXTENDS Integers, Sequences, FiniteSets, TLC

\* ---------------------------------------------------------------- bounds
MaxInFlight == 2      \* concurrent request tasks
MaxTime == 460        \* last clock value (seconds)
MaxFailures == 2      \* cap of the cumulative failure counter
MaxWorkers == 2       \* server processes that run a call at once
MaxCalls == 3         \* codec calls in one run

\* ------------------------------------------------------ program constants
CIRCUIT_BREAKER_COOLDOWN == 300

\* Strings the code takes apart are sequences of characters.
MARGE == <<"/", "m", "a", "r", "g", "e">>
BMX == <<"/", "b", "m", "x">>
UPDATES == <<"/", "u", "p", "d", "a", "t", "e", "s">>

\* dict in insertion order: prefix -> upstream base
UPSTREAM_MAP ==
  << [prefix |-> MARGE, upstream |-> "https://streaming.bose.com"],
     [prefix |-> BMX, upstream |-> "https://content.api.bose.io"],
     [prefix |-> UPDATES, upstream |-> "https://worldwide.bose.com"] >>

Upstreams == {UPSTREAM_MAP[i].upstream : i \in 1..Len(UPSTREAM_MAP)}

startswith(s, p) == Len(s) >= Len(p) /\ SubSeq(s, 1, Len(p)) = p

NoMatch == [matched |-> FALSE, upstream |-> "", prefix |-> <<>>]

RECURSIVE match_from(_, _)
match_from(path, i) ==
  IF i > Len(UPSTREAM_MAP) THEN NoMatch
  ELSE IF path = UPSTREAM_MAP[i].prefix
          \/ startswith(path, UPSTREAM_MAP[i].prefix \o <<"/">>)
       THEN [matched |-> TRUE, upstream |-> UPSTREAM_MAP[i].upstream,
             prefix |-> UPSTREAM_MAP[i].prefix]
       ELSE match_from(path, i + 1)

\* mutant: a prefix matches without the "/" that must follow it
RECURSIVE match_from_loose(_, _)
match_from_loose(path, i) ==
  IF i > Len(UPSTREAM_MAP) THEN NoMatch
  ELSE IF startswith(path, UPSTREAM_MAP[i].prefix)
       THEN [matched |-> TRUE, upstream |-> UPSTREAM_MAP[i].upstream,
             prefix |-> UPSTREAM_MAP[i].prefix]
       ELSE match_from_loose(path, i + 1)

match_upstream_loose(path) == match_from_loose(path, 1)

match_upstream(path) == match_from(path, 1)

\* --------------------------------------------------------- circuit breaker
\* One entry per upstream; present = FALSE is a key missing from _circuits.
NoState == [present |-> FALSE, open |-> FALSE, last_failure |-> 0, failures |-> 0]

\* mutant: the cooldown expires one tick early (>= for >)
is_open_early(cs, upstream_base, t) ==
  LET state == cs[upstream_base] IN
  IF ~state.present \/ ~state.open THEN FALSE
  ELSE IF t - state.last_failure >= CIRCUIT_BREAKER_COOLDOWN THEN FALSE
  ELSE TRUE

\* mutant: the cooldown never expires
is_open_no_expiry(cs, upstream_base, t) ==
  cs[upstream_base].present /\ cs[upstream_base].open

is_open(cs, upstream_base, t) ==
  LET state == cs[upstream_base] IN
  IF ~state.present \/ ~state.open THEN FALSE
  ELSE IF t - state.last_failure > CIRCUIT_BREAKER_COOLDOWN THEN FALSE
  ELSE TRUE

\* mutant: two failures that overlap count as one
record_failure_lost_update(cs, upstream_base, t) ==
  [cs EXCEPT ![upstream_base] =
     [present |-> TRUE, open |-> TRUE, last_failure |-> t, failures |-> 1]]

\* mutant: a repeated failure keeps the time of the first one
record_failure_keep_time(cs, upstream_base, t) ==
  LET state == cs[upstream_base] IN
  IF ~state.present
  THEN [cs EXCEPT ![upstream_base] =
          [present |-> TRUE, open |-> TRUE, last_failure |-> t, failures |-> 1]]
  ELSE [cs EXCEPT ![upstream_base] =
          [present |-> TRUE, open |-> TRUE, last_failure |-> state.last_failure,
           failures |-> state.failures + 1]]

record_failure(cs, upstream_base, t) ==
  LET state == cs[upstream_base] IN
  IF ~state.present
  THEN [cs EXCEPT ![upstream_base] =
          [present |-> TRUE, open |-> TRUE, last_failure |-> t, failures |-> 1]]
  ELSE [cs EXCEPT ![upstream_base] =
          [present |-> TRUE, open |-> TRUE, last_failure |-> t,
           failures |-> state.failures + 1]]

\* mutant: the circuit is closed but the failure count is kept
record_success_keep_count(cs, upstream_base) ==
  LET state == cs[upstream_base] IN
  IF state.present /\ state.open
  THEN [cs EXCEPT ![upstream_base] = [state EXCEPT !.open = FALSE]]
  ELSE cs

\* mutant: the failure count is reset but the circuit stays open
record_success_keep_open(cs, upstream_base) ==
  LET state == cs[upstream_base] IN
  IF state.present /\ state.open
  THEN [cs EXCEPT ![upstream_base] = [state EXCEPT !.failures = 0]]
  ELSE cs

record_success(cs, upstream_base) ==
  LET state == cs[upstream_base] IN
  IF state.present /\ state.open
  THEN [cs EXCEPT ![upstream_base] =
          [state EXCEPT !.open = FALSE, !.failures = 0]]
  ELSE cs

get_status(cs, upstream_base, t) ==
  LET state == cs[upstream_base] IN
  IF ~state.present \/ ~state.open THEN "healthy"
  ELSE IF t - state.last_failure > CIRCUIT_BREAKER_COOLDOWN
       THEN "half-open (probing)"
       ELSE "down"

\* ---------------------------------------------------------------- requests
\* /marge/streaming/account/1/device/D/preset/2 and .../recent
AccountDevice ==
  <<"/", "s", "t", "r", "e", "a", "m", "i", "n", "g",
    "/", "a", "c", "c", "o", "u", "n", "t", "/", "1",
    "/", "d", "e", "v", "i", "c", "e", "/", "D">>
PresetPath == MARGE \o AccountDevice \o <<"/", "p", "r", "e", "s", "e", "t", "/", "2">>
RecentPath == MARGE \o AccountDevice \o <<"/", "r", "e", "c", "e", "n", "t">>
RecentsPath == MARGE \o AccountDevice \o <<"/", "r", "e", "c", "e", "n", "t", "s">>

\* The requests of the concurrent specification: one mapped path.
CircuitRequests == { [method |-> "GET", path |-> RecentsPath] }

Requests ==
  { [method |-> "GET", path |-> RecentsPath],
    [method |-> "GET", path |-> MARGE],
    [method |-> "PUT", path |-> PresetPath],
    [method |-> "POST", path |-> RecentPath],
    [method |-> "GET", path |-> MARGE \o <<"x">>],
    [method |-> "GET", path |-> BMX \o <<"/", "y">>],
    [method |-> "GET", path |-> <<"/">>] }

\* The local routes of the requests above (the decorators of main.py).
route(r) ==
  IF r.method = "PUT" /\ r.path = PresetPath THEN "put_account_preset"
  ELSE IF r.method = "POST" /\ r.path = RecentPath THEN "post_account_recent"
  ELSE IF r.method = "GET" /\ r.path = RecentsPath THEN "account_recents"
  ELSE IF r.method = "GET" /\ r.path = <<"/">> THEN "read_root"
  ELSE "none"

\* What call_next can answer: an unrouted path is a 404, a handler answers
\* 200 or raises an HTTPException (400).
LocalStatuses(r) == IF route(r) = "none" THEN {404} ELSE {200, 400}

\* What client.request can end in: httpx.RequestError or a status code.
RequestError == 0
UpstreamOutcomes == {RequestError, 200, 400, 404, 500}

\* mutant: only 5xx falls back
is_fallback_status_5xx(status_code) == status_code >= 500

\* mutant: 500 itself does not fall back
is_fallback_status_gt500(status_code) == status_code = 404 \/ status_code > 500

is_fallback_status(status_code) == status_code = 404 \/ status_code >= 500

\* ------------------------------------------------------------ recents store
\* Python None, a missing XML attribute or a missing XML element.
NoneVal == "<None>"
truthy(x) == x # NoneVal /\ x # ""

\* lastplayedat of a request body without that element (or with empty text)
NoTime == -1

\* Sources.xml of the account: the third source carries no id attribute and
\* the first no account attribute.
SourcesFile ==
  << [id |-> "1", type |-> "TUNEIN", account |-> NoneVal],
     [id |-> "2", type |-> "SPOTIFY", account |-> "alice"],
     [id |-> NoneVal, type |-> "SPOTIFY", account |-> "bob"],
     [id |-> "7", type |-> "SPOTIFY", account |-> "alice"],
     [id |-> "8", type |-> "NAPSTER", account |-> "carol"] >>

\* str() of the ids get_configured_sources makes up
FirstGeneratedId == 100001
str_id(n) == IF n = 100001 THEN "100001"
             ELSE IF n = 100002 THEN "100002"
             ELSE IF n = 100003 THEN "100003" ELSE "100004"

RECURSIVE sources_from(_, _, _)
sources_from(file, i, last_id) ==
  IF i > Len(file) THEN <<>>
  ELSE LET attr_id == IF file[i].id = NoneVal THEN "" ELSE file[i].id
           id == IF attr_id = "" THEN str_id(last_id) ELSE attr_id
           next_last == IF attr_id = "" THEN last_id + 1 ELSE last_id
       IN <<[id |-> id,
             source_key_type |-> IF file[i].type = NoneVal THEN "" ELSE file[i].type,
             source_key_account |->
               IF file[i].account = NoneVal THEN "" ELSE file[i].account]>>
          \o sources_from(file, i + 1, next_last)

get_configured_sources(file) == sources_from(file, 1, FirstGeneratedId)

\* Recents.xml -> list[Recent]; source_id is not stored, sourceAccount is
\* None when the attribute is missing.
get_recents(file) ==
  [i \in 1..Len(file) |->
     [id |-> file[i].id,
      utc_time |-> file[i].utcTime,
      source |-> IF file[i].source = NoneVal THEN "" ELSE file[i].source,
      location |-> file[i].location,
      source_account |-> file[i].sourceAccount,
      source_id |-> NoneVal]]

\* list[Recent] -> Recents.xml; source and sourceAccount are written only
\* when truthy.
save_recents(recents_list) ==
  [i \in 1..Len(recents_list) |->
     [id |-> recents_list[i].id,
      utcTime |-> recents_list[i].utc_time,
      source |-> IF truthy(recents_list[i].source)
                 THEN recents_list[i].source ELSE NoneVal,
      location |-> recents_list[i].location,
      sourceAccount |-> IF truthy(recents_list[i].source_account)
                        THEN recents_list[i].source_account ELSE NoneVal]]

\* index of the first TRUE of a sequence of booleans, 0 when there is none:
\* next(x for x in xs if test(x)) over the tests of the elements
first_true(bs) ==
  IF \E i \in 1..Len(bs) : bs[i]
  THEN CHOOSE i \in 1..Len(bs) : bs[i] /\ \A j \in 1..(i - 1) : ~bs[j]
  ELSE 0

\* The providers of constants.PROVIDERS that the stored files name.
PROVIDERS == {"PANDORA", "INTERNET_RADIO", "DEEZER", "SPOTIFY", "TUNEIN"}
ValueError == "<ValueError>"

\* configured_source_xml: the id of the <source> element it renders;
\* PROVIDERS.index raises ValueError for a type that is not in the list.
configured_source_xml(conf_source) ==
  IF conf_source.source_key_type \in PROVIDERS
  THEN conf_source.id ELSE ValueError

\* mutant: the (type, account) pair is tried before the source_id
content_item_source_xml_pair_first(configured_sources, content_item) ==
  LET ByKey(cs) ==
        /\ cs.source_key_type = content_item.source
        /\ \/ cs.source_key_account = content_item.source_account
           \/ (~truthy(cs.source_key_account) /\ ~truthy(content_item.source_account))
      ById(cs) == cs.id = content_item.source_id
      i == first_true([k \in 1..Len(configured_sources) |->
                         ByKey(configured_sources[k])])
      j == first_true([k \in 1..Len(configured_sources) |->
                         ById(configured_sources[k])])
  IN IF i # 0 THEN configured_source_xml(configured_sources[i])
     ELSE IF j # 0 THEN configured_source_xml(configured_sources[j])
     ELSE NoneVal

\* content_item_source_xml: the rendering of the source it selects, or
\* NoneVal for the HTTPException(400)
content_item_source_xml(configured_sources, content_item) ==
  IF truthy(content_item.source_id)
  THEN LET ById(cs) == cs.id = content_item.source_id
           i == first_true([k \in 1..Len(configured_sources) |->
                              ById(configured_sources[k])])
       IN IF i = 0 THEN NoneVal
          ELSE configured_source_xml(configured_sources[i])
  ELSE LET ByKey(cs) ==
             /\ cs.source_key_type = content_item.source
             /\ \/ cs.source_key_account = content_item.source_account
                \/ (~truthy(cs.source_key_account) /\ ~truthy(content_item.source_account))
           i == first_true([k \in 1..Len(configured_sources) |->
                              ByKey(configured_sources[k])])
       IN IF i = 0 THEN NoneVal
          ELSE configured_source_xml(configured_sources[i])

\* next(src for src in conf_sources_list if src.id == source_id): the index
\* of the source, 0 for StopIteration
matching_src(conf_sources_list, source_id) ==
  first_true([k \in 1..Len(conf_sources_list) |->
                conf_sources_list[k].id = source_id])

RecentsCap == 10

max_id(recents_list) ==
  CHOOSE m \in {recents_list[i].id : i \in 1..Len(recents_list)} :
    \A i \in 1..Len(recents_list) : recents_list[i].id <= m

NoBody == [name |-> NoneVal, sourceid |-> NoneVal, location |-> NoneVal,
           lastplayedat |-> NoTime]
NoRet == [op |-> "none", arg |-> NoBody, status |-> 0, id |-> 0,
          lastplayedat |-> 0, source |-> NoneVal]

\* add_recent: the file it leaves, whether save_recents was called, and the
\* response it returns. status 500 is an exception that is not an
\* HTTPException.
add_recent(file, source_xml, t) ==
  LET conf_sources_list == get_configured_sources(SourcesFile)
      recents_list == get_recents(file)
      utc_time == IF source_xml.lastplayedat # NoTime
                  THEN source_xml.lastplayedat ELSE t
      failed(status) ==
        [file |-> file, saved |-> FALSE,
         ret |-> [NoRet EXCEPT !.op = "add_recent", !.arg = source_xml,
                               !.status = status]]
  IN
  IF source_xml.name = NoneVal \/ source_xml.sourceid = NoneVal
       \/ source_xml.location = NoneVal
  THEN failed(500)
  ELSE
  LET si == matching_src(conf_sources_list, source_xml.sourceid) IN
  IF si = 0 THEN failed(400)
  ELSE
  LET source == conf_sources_list[si].source_key_type
      source_account == conf_sources_list[si].source_key_account
      Same(r) == r.source = source /\ r.location = source_xml.location
                   /\ r.source_account = source_account
      mi == first_true([k \in 1..Len(recents_list) |-> Same(recents_list[k])])
  IN
  IF mi = 0 /\ Len(recents_list) = 0 THEN failed(500)
  ELSE
  LET recent_obj ==
        IF mi # 0 THEN [recents_list[mi] EXCEPT !.utc_time = utc_time]
        ELSE [id |-> max_id(recents_list) + 1, utc_time |-> utc_time,
              source |-> source, location |-> source_xml.location,
              source_account |-> source_account,
              source_id |-> source_xml.sourceid]
      new_list ==
        IF mi # 0 THEN [recents_list EXCEPT ![mi] = recent_obj]
        ELSE LET grown == <<recent_obj>> \o recents_list
             IN SubSeq(grown, 1, IF Len(grown) < RecentsCap THEN Len(grown) ELSE RecentsCap)
      rendered == content_item_source_xml(conf_sources_list, recent_obj)
  IN [file |-> save_recents(new_list), saved |-> TRUE,
      ret |-> IF rendered \in {NoneVal, ValueError}
              THEN [NoRet EXCEPT !.op = "add_recent", !.arg = source_xml,
                                 !.status =
                                   IF rendered = NoneVal THEN 400 ELSE 500]
              ELSE [op |-> "add_recent", arg |-> source_xml, status |-> 200,
                    id |-> recent_obj.id,
                    lastplayedat |-> utc_time, source |-> rendered]]

\* The bodies posted to .../recent.
Locations == {"a", "b"}
RecentBodies ==
  { [name |-> n, sourceid |-> sid, location |-> l, lastplayedat |-> lp] :
      n \in {"WXRV"}, sid \in {"1", "2", "100001", "9"}, l \in Locations,
      lp \in {NoTime, 50} }
  \cup { [name |-> NoneVal, sourceid |-> "1", location |-> "a", lastplayedat |-> NoTime],
         [name |-> "WXRV", sourceid |-> NoneVal, location |-> "a", lastplayedat |-> NoTime],
         [name |-> "WXRV", sourceid |-> "1", location |-> NoneVal, lastplayedat |-> NoTime] }

\* A Recents.xml that holds RecentsCap entries, most recent first.
FullLocations == <<"c1", "c2", "c3", "c4", "c5", "c6", "c7", "c8", "c9", "b">>
FullRecentsFile ==
  [i \in 1..RecentsCap |->
     [id |-> RecentsCap + 1 - i, utcTime |-> 70 - i, source |-> "SPOTIFY",
      location |-> FullLocations[i], sourceAccount |-> "alice"]]

\* Recents.xml as imported from a speaker: most recent first.
InitRecentsFiles ==
  { <<>>,
    FullRecentsFile,
    << [id |-> 1, utcTime |-> 20, source |-> "TUNEIN", location |-> "a",
        sourceAccount |-> NoneVal] >>,
    << [id |-> 2, utcTime |-> 20, source |-> "SPOTIFY", location |-> "a",
        sourceAccount |-> "alice"],
       [id |-> 1, utcTime |-> 10, source |-> "SPOTIFY", location |-> "b",
        sourceAccount |-> "alice"] >> }

\* ---------------------------------------------------------- presets store
\* An element of a posted body is NoneVal when it is missing, else its text.
\* str.strip over the texts that the bodies hold.
strip(text) == IF text = " WXRV " THEN "WXRV" ELSE text

strip_element_text(elem) ==
  IF elem = NoneVal THEN ""
  ELSE IF elem = "" THEN ""
  ELSE strip(elem)

\* An entry of Presets.xml: id, createdOn, updatedOn, the ContentItem
\* attributes source, type, location, sourceAccount, and the texts of
\* itemName and containerArt; NoneVal is a missing attribute or an element
\* without text.
\* get_presets raises: KeyError for a missing source attribute, a validation
\* error for an itemName without text (Preset.name is a required str).
get_presets_raises(file) ==
  \E i \in 1..Len(file) : file[i].source = NoneVal \/ file[i].itemName = NoneVal

get_presets(file) ==
  [i \in 1..Len(file) |->
     [id |-> file[i].id,
      type |-> IF file[i].type = NoneVal THEN "" ELSE file[i].type,
      created_on |-> file[i].createdOn,
      updated_on |-> file[i].updatedOn,
      name |-> file[i].itemName,
      source |-> file[i].source,
      location |-> IF file[i].location = NoneVal THEN "" ELSE file[i].location,
      source_id |-> NoneVal,
      source_account |-> IF file[i].sourceAccount = NoneVal
                         THEN "" ELSE file[i].sourceAccount,
      container_art |-> IF file[i].containerArt = NoneVal
                        THEN "" ELSE file[i].containerArt]]

\* list[Preset] -> Presets.xml; source and sourceAccount are written only
\* when truthy, an empty text is written as an element without text.
save_presets(presets_list) ==
  [i \in 1..Len(presets_list) |->
     [id |-> presets_list[i].id,
      createdOn |-> presets_list[i].created_on,
      updatedOn |-> presets_list[i].updated_on,
      source |-> IF truthy(presets_list[i].source)
                 THEN presets_list[i].source ELSE NoneVal,
      type |-> presets_list[i].type,
      location |-> presets_list[i].location,
      sourceAccount |-> IF truthy(presets_list[i].source_account)
                        THEN presets_list[i].source_account ELSE NoneVal,
      itemName |-> IF truthy(presets_list[i].name)
                   THEN presets_list[i].name ELSE NoneVal,
      containerArt |-> IF truthy(presets_list[i].container_art)
                       THEN presets_list[i].container_art ELSE NoneVal]]

\* the instant "2012-09-19T12:43:00.000+00:00"
default_datestr == 1348058580

\* preset_xml: the <preset> element; its source is NoneVal when
\* content_item_source_xml raises the HTTPException(400). A timestamp is
\* rendered as its instant, a stored text that int() rejects as
\* default_datestr.
preset_xml(preset, conf_sources_list) ==
  [buttonNumber |-> preset.id,
   containerArt |-> preset.container_art,
   contentItemType |-> preset.type,
   createdOn |-> IF preset.created_on = NoTime
                 THEN default_datestr ELSE preset.created_on,
   location |-> preset.location,
   name |-> preset.name,
   source |-> content_item_source_xml(conf_sources_list, preset),
   updatedOn |-> IF preset.updated_on = NoTime
                 THEN default_datestr ELSE preset.updated_on]

NoPresetBody ==
  [name |-> NoneVal, sourceid |-> NoneVal, location |-> NoneVal,
   contentItemType |-> NoneVal, containerArt |-> NoneVal]
NoPresetXml ==
  [buttonNumber |-> 0, containerArt |-> "", contentItemType |-> "",
   createdOn |-> NoTime, location |-> "", name |-> "", source |-> NoneVal,
   updatedOn |-> NoTime]

\* update_preset: the file it leaves, whether save_presets was called, and
\* the response it returns. presets_list[preset_number - 1] is Python's
\* indexing: an index below 0 counts from the end, an index outside
\* -len..len-1 raises IndexError (status 500).
update_preset(file, preset_number, source_xml, t) ==
  LET conf_sources_list == get_configured_sources(SourcesFile)
      failed(status) ==
        [file |-> file, saved |-> FALSE,
         ret |-> [op |-> "update_preset", arg |-> source_xml,
                  slot |-> preset_number, status |-> status,
                  preset |-> NoPresetXml]]
  IN
  IF get_presets_raises(file) THEN failed(500)
  ELSE
  LET presets_list == get_presets(file)
      name == strip_element_text(source_xml.name)
      source_id == strip_element_text(source_xml.sourceid)
      location == strip_element_text(source_xml.location)
      content_item_type == strip_element_text(source_xml.contentItemType)
      container_art == strip_element_text(source_xml.containerArt)
      si == matching_src(conf_sources_list, source_id)
  IN
  IF si = 0 THEN failed(400)
  ELSE
  LET preset_obj ==
        [id |-> preset_number,
         type |-> content_item_type,
         created_on |-> t,
         updated_on |-> t,
         name |-> name,
         source |-> conf_sources_list[si].source_key_type,
         location |-> location,
         source_id |-> source_id,
         source_account |-> conf_sources_list[si].source_key_account,
         container_art |-> container_art]
      n == Len(presets_list)
      index == preset_number - 1
  IN
  IF index >= n \/ index < 0 - n THEN failed(500)
  ELSE
  LET pos == IF index >= 0 THEN index + 1 ELSE n + index + 1
      new_list == [presets_list EXCEPT ![pos] = preset_obj]
      rendered == preset_xml(preset_obj, conf_sources_list)
  IN [file |-> save_presets(new_list), saved |-> TRUE,
      ret |-> [op |-> "update_preset", arg |-> source_xml,
               slot |-> preset_number,
               status |-> IF rendered.source = NoneVal THEN 400
                          ELSE IF rendered.source = ValueError THEN 500
                          ELSE 200,
               preset |-> IF rendered.source \in {NoneVal, ValueError}
                          THEN NoPresetXml ELSE rendered]]

\* presets_xml and recents_xml: the stored items re-read and rendered, each
\* with the source that content_item_source_xml gives for it.
presets_xml(file, conf_sources_list) ==
  [i \in 1..Len(file) |-> preset_xml(get_presets(file)[i], conf_sources_list)]
recents_xml(file, conf_sources_list) ==
  [i \in 1..Len(file) |->
     [id |-> get_recents(file)[i].id,
      lastplayedat |-> get_recents(file)[i].utc_time,
      location |-> get_recents(file)[i].location,
      source |-> content_item_source_xml(conf_sources_list,
                                         get_recents(file)[i])]]

\* The bodies put to .../preset/{preset_number} and the slot numbers.
PresetBodies ==
  { [name |-> "WXRV", sourceid |-> sid, location |-> l,
     contentItemType |-> "stationurl", containerArt |-> ""] :
      sid \in {"1", "2", "9"}, l \in Locations }
  \cup { [name |-> NoneVal, sourceid |-> "1", location |-> "a",
          contentItemType |-> "stationurl", containerArt |-> ""],
         [name |-> "WXRV", sourceid |-> NoneVal, location |-> "a",
          contentItemType |-> "stationurl", containerArt |-> ""],
         [name |-> "WXRV", sourceid |-> "1", location |-> NoneVal,
          contentItemType |-> "stationurl", containerArt |-> ""],
         [name |-> " WXRV ", sourceid |-> "1", location |-> "a",
          contentItemType |-> "stationurl", containerArt |-> ""],
         [name |-> "WXRV", sourceid |-> "2", location |-> "a",
          contentItemType |-> NoneVal, containerArt |-> "art"] }
PresetNumbers == {-1, 0, 1, 2, 3}

\* Presets.xml as imported from a speaker: the presets that are set, each
\* under its button number.
StoredPreset(id, source, account, location) ==
  [id |-> id, createdOn |-> 20, updatedOn |-> 20, source |-> source,
   type |-> "stationurl", location |-> location, sourceAccount |-> account,
   itemName |-> "WXRV", containerArt |-> NoneVal]
InitPresetsFiles ==
  { <<>>,
    << StoredPreset(1, "TUNEIN", NoneVal, "a"),
       StoredPreset(2, "SPOTIFY", "alice", "b") >>,
    << StoredPreset(1, "TUNEIN", NoneVal, "a"),
       StoredPreset(3, "SPOTIFY", "alice", "b") >>,
    << StoredPreset(2, "TUNEIN", NoneVal, "a"),
       StoredPreset(3, "SPOTIFY", "alice", "b") >> }

\* ------------------------------------------------------- source resolution
\* A Sources.xml where two sources share a provider type and account.
DupSourcesFile ==
  << [id |-> "3", type |-> "SPOTIFY", account |-> "alice"],
     [id |-> "7", type |-> "SPOTIFY", account |-> "alice"],
     [id |-> "8", type |-> "TUNEIN", account |-> NoneVal] >>
ConfiguredSourceLists ==
  { get_configured_sources(f) : f \in {<<>>, SourcesFile, DupSourcesFile} }
\* The ContentItems: a preset or recent read from the store has no
\* source_id, one built from a body has the body's.
ContentItems ==
  [source_id : {NoneVal, "1", "7", "9"},
   source : {NoneVal, "TUNEIN", "SPOTIFY"},
   source_account : {NoneVal, "", "alice", "bob"}]
NoCall == [configured_sources |-> <<>>,
           content_item |-> [source_id |-> NoneVal, source |-> NoneVal,
                             source_account |-> NoneVal]]
Pending == "<pending>"

\* ------------------------------------------------------------ traffic log
\* The traffic log. _log_exchange appends one line; an OSError of the
\* open or the write is swallowed, and the file stays as it was.
MaxLog == 2
EmptyLog == [writable |-> TRUE, entries |-> <<>>]
UnwritableLog == [writable |-> FALSE, entries |-> <<>>]
log_exchange(lg, request, upstream_url, status, fallback) ==
  IF lg.writable
  THEN [lg EXCEPT !.entries = Append(@,
          [request |-> request, upstream_url |-> upstream_url,
           status |-> status, fallback |-> fallback])]
  ELSE lg

\* ---------------------------------------------------------------- headers
HOP_BY_HOP ==
  {"host", "transfer-encoding", "connection", "keep-alive",
   "proxy-authenticate", "proxy-authorization", "te", "trailers", "upgrade"}

\* Header names as they may arrive, and str.lower on them.
HeaderNames ==
  {"Host", "connection", "Keep-Alive", "Transfer-Encoding",
   "proxy-authenticate", "Proxy-Authorization", "TE", "trailers", "Upgrade",
   "Content-Length", "content-encoding", "accept", "X-Request-Id"}
lower(k) ==
  CASE k = "Host" -> "host"
    [] k = "Keep-Alive" -> "keep-alive"
    [] k = "Transfer-Encoding" -> "transfer-encoding"
    [] k = "Proxy-Authorization" -> "proxy-authorization"
    [] k = "TE" -> "te"
    [] k = "Upgrade" -> "upgrade"
    [] k = "Content-Length" -> "content-length"
    [] k = "X-Request-Id" -> "x-request-id"
    [] OTHER -> k

\* fwd_headers: the request headers that go upstream
fwd_headers(headers) == {k \in headers : lower(k) \notin HOP_BY_HOP}

\* return_headers: the upstream response headers that go back to the caller
excluded == {"content-encoding", "content-length", "transfer-encoding"}
return_headers(resp_headers) == {k \in resp_headers : lower(k) \notin excluded}

MaxHeaders == 2
HeaderSets == {hs \in SUBSET HeaderNames : Cardinality(hs) <= MaxHeaders}
NoExchange ==
  [stage |-> "idle", request_headers |-> {}, fwd_headers |-> {},
   resp_headers |-> {}, return_headers |-> {}]

\* ------------------------------------------------------- web UI sessions
\* SessionStore._sessions maps a session id to its CSRF token, NoneVal for
\* an id that is not a key. secrets.token_urlsafe(32) gives an id that was
\* never given before. The cookie values are the ids, no cookie ("") and
\* a value that was never an id.
SessionIds == {"sid1", "sid2"}
CookieValues == SessionIds \cup {"", "bogus"}
CsrfTokens == {"tokA", "tokB"}
EmptySessions == [id \in CookieValues |-> NoneVal]

create(sessions, session_id, csrf_token) ==
  [sessions EXCEPT ![session_id] = csrf_token]

\* self._sessions.get(session_id), and the token of the session if any
validate(sessions, session_id) == sessions[session_id]

\* mutant: the session stays
destroy_keep(sessions, session_id) == sessions

destroy(sessions, session_id) == [sessions EXCEPT ![session_id] = NoneVal]

\* The store with its history: the token each id was issued with, and the
\* ids that were created and not destroyed since.
NoSessions ==
  [sessions |-> EmptySessions, issued |-> EmptySessions, live |-> {}]

WEBUI ==
  <<"/", "w", "e", "b", "u", "i">>
WebuiLogin ==
  <<"/", "w", "e", "b", "u", "i", "/", "l", "o", "g", "i", "n">>
WebuiApiLogin ==
  <<"/", "w", "e", "b", "u", "i", "/", "a", "p", "i", "/", "l", "o", "g",
    "i", "n">>
WebuiStaticPrefix ==
  <<"/", "w", "e", "b", "u", "i", "/", "s", "t", "a", "t", "i", "c", "/">>
WebuiApiPrefix ==
  <<"/", "w", "e", "b", "u", "i", "/", "a", "p", "i", "/">>
WebuiWsPrefix ==
  <<"/", "w", "e", "b", "u", "i", "/", "w", "s", "/">>

WEBUI_PUBLIC_PATHS == {WebuiLogin, WebuiApiLogin}
WEBUI_PUBLIC_PREFIXES == {WebuiStaticPrefix}
is_webui_path_public(path) ==
  \/ path \in WEBUI_PUBLIC_PATHS
  \/ \E p \in WEBUI_PUBLIC_PREFIXES : startswith(path, p)

\* secrets.compare_digest on two str: TypeError when one of them has a
\* character outside ASCII (header values are decoded as latin-1).
NonAscii == "tok<E9>"
CsrfHeaders == CsrfTokens \cup {"", "wrong-token", NonAscii}
compare_digest(a, b) ==
  IF a = NonAscii \/ b = NonAscii THEN "TypeError"
  ELSE IF a = b THEN "True" ELSE "False"

\* What a middleware does with a request: it calls call_next, answers
\* itself, or raises (the server answers 500).
Passed == [rejected |-> FALSE, status |-> 0]
Rejected(status) == [rejected |-> TRUE, status |-> status]

webui_auth(sessions, request) ==
  LET path == request.path
      csrf_token == validate(sessions, request.cookie)
  IN
  IF ~startswith(path, WEBUI) THEN Passed
  ELSE IF is_webui_path_public(path) THEN Passed
  ELSE IF csrf_token = NoneVal
  THEN IF startswith(path, WebuiApiPrefix) \/ startswith(path, WebuiWsPrefix)
       THEN Rejected(401)
       ELSE Rejected(302)
  ELSE IF /\ request.method \in {"POST", "PUT", "DELETE", "PATCH"}
          /\ path # WebuiApiLogin
  THEN LET eq == compare_digest(request.csrf, csrf_token) IN
       IF eq = "TypeError" THEN Rejected(500)
       ELSE IF eq = "False" THEN Rejected(403)
       ELSE Passed
  ELSE Passed

\* @app.middleware("http"): the function runs for the http scope only, a
\* websocket handshake goes to the application as it is.
http_middleware_webui_auth(sessions, request) ==
  IF request.scope # "http" THEN Passed
  ELSE webui_auth(sessions, request)

\* The requests of the web UI specification.
NoRequest ==
  [scope |-> "none", method |-> "", path |-> <<>>, cookie |-> "", csrf |-> ""]
WebuiPaths ==
  { WebuiLogin, WebuiApiLogin, WebuiStaticPrefix \o <<"s">>,
    WEBUI \o <<"/", "s", "t", "a", "t", "i", "c">>,
    WEBUI \o <<"/">>, WebuiLogin \o <<"x">>,
    WebuiApiPrefix \o <<"c">>, WebuiWsPrefix \o <<"s">>,
    MARGE, <<"/">> }
WebuiRequests ==
  [scope : {"http"}, method : {"GET"},
   path : WebuiPaths, cookie : CookieValues, csrf : {"", "tokA"}]
  \cup
  [scope : {"http"}, method : {"POST", "PUT", "DELETE", "PATCH"},
   path : {WebuiApiPrefix \o <<"c">>, WebuiApiLogin, MARGE},
   cookie : CookieValues, csrf : CsrfHeaders]
  \cup
  [scope : {"websocket"}, method : {"GET"},
   path : {WebuiWsPrefix \o <<"s">>}, cookie : CookieValues, csrf : {""}]

\* ------------------------------------------------- speaker ip restriction
\* ipaddress.ip_address on the texts that occur: an IPv4 address with its
\* octets, an IPv6 address, or a ValueError.
ip_address(ip) ==
  CASE ip = "203.0.113.99" -> [version |-> 4, octets |-> <<203, 0, 113, 99>>]
    [] ip = "8.8.8.8" -> [version |-> 4, octets |-> <<8, 8, 8, 8>>]
    [] ip = "192.168.1.143" -> [version |-> 4, octets |-> <<192, 168, 1, 143>>]
    [] ip = "172.31.0.1" -> [version |-> 4, octets |-> <<172, 31, 0, 1>>]
    [] ip = "172.32.0.1" -> [version |-> 4, octets |-> <<172, 32, 0, 1>>]
    [] ip = "10.0.0.5" -> [version |-> 4, octets |-> <<10, 0, 0, 5>>]
    [] ip = "10.0.0.6" -> [version |-> 4, octets |-> <<10, 0, 0, 6>>]
    [] ip = "169.254.169.254" ->
         [version |-> 4, octets |-> <<169, 254, 169, 254>>]
    [] ip = "127.0.0.1" -> [version |-> 4, octets |-> <<127, 0, 0, 1>>]
    [] ip = "::1" -> [version |-> 6, octets |-> <<>>]
    [] OTHER -> [version |-> 0, octets |-> <<>>]

\* 10.0.0.0/8, 172.16.0.0/12, 192.168.0.0/16
is_private_ip(ip) ==
  LET addr == ip_address(ip) IN
  IF addr.version # 4 THEN FALSE
  ELSE \/ addr.octets[1] = 10
       \/ addr.octets[1] = 172 /\ addr.octets[2] \in 16..31
       \/ addr.octets[1] = 192 /\ addr.octets[2] = 168

LOOPBACK == {"127.0.0.1", "::1"}
is_allowed(ips, ip) == ip \in LOOPBACK \/ ip \in ips \/ is_private_ip(ip)

\* str.strip on the entries of an X-Forwarded-For header
strip_entry(text) ==
  IF text = " 203.0.113.99 " THEN "203.0.113.99"
  ELSE IF text = " 10.0.0.5" THEN "10.0.0.5"
  ELSE text

\* The X-Forwarded-For header as its split(","), <<"">> for an empty value.
NoForwarded == [present |-> FALSE, entries |-> <<>>]
Forwarded(entries) == [present |-> TRUE, entries |-> entries]

EXEMPT_PREFIXES ==
  { <<"/", "w", "e", "b", "u", "i">>,
    <<"/", "m", "g", "m", "t">>,
    <<"/", "d", "o", "c", "s">>,
    <<"/", "o", "p", "e", "n", "a", "p", "i", ".", "j", "s", "o", "n">>,
    <<"/", "a", "u", "t", "h">> }

\* mutant: the peer address is the client, whatever was forwarded
speaker_ip_restriction_peer(ips, request) ==
  IF \/ request.path = <<"/">>
     \/ \E p \in EXEMPT_PREFIXES : startswith(request.path, p)
  THEN Passed
  ELSE IF ~is_allowed(ips, request.peer) THEN Rejected(403)
  ELSE Passed

speaker_ip_restriction(ips, request) ==
  LET path == request.path
      forwarded == request.forwarded
      client_ip == IF forwarded.present /\ forwarded.entries # <<"">>
                   THEN strip_entry(forwarded.entries[1])
                   ELSE request.peer
  IN
  IF path = <<"/">> \/ \E p \in EXEMPT_PREFIXES : startswith(path, p)
  THEN Passed
  ELSE IF ~is_allowed(ips, client_ip) THEN Rejected(403)
  ELSE Passed

\* The requests of the ip restriction: paths, headers and peer addresses
\* ("" when the server gives no client).
IpPaths ==
  { <<"/">>, MARGE, <<"/", "s", "c", "a", "n">>,
    WEBUI \o <<"/">>, WEBUI \o <<"x">>,
    <<"/", "m", "g", "m", "t", "/", "x">>,
    <<"/", "d", "o", "c", "s">>,
    <<"/", "o", "p", "e", "n", "a", "p", "i", ".", "j", "s", "o", "n">>,
    <<"/", "a", "u", "t", "h", "/", "c", "o", "n", "f", "i", "g">> }
ForwardedHeaders ==
  { NoForwarded, Forwarded(<<"">>), Forwarded(<<"203.0.113.99">>),
    Forwarded(<<"192.168.1.143">>), Forwarded(<<"8.8.8.8">>),
    Forwarded(<<" 203.0.113.99 ", " 10.0.0.5">>),
    Forwarded(<<" 10.0.0.5", "203.0.113.99">>),
    Forwarded(<<"172.32.0.1">>), Forwarded(<<"172.31.0.1">>),
    Forwarded(<<"::1">>), Forwarded(<<"", "10.0.0.5">>) }
Peers == {"203.0.113.99", "10.0.0.5", "127.0.0.1", "8.8.8.8", ""}
IpRequests == [path : IpPaths, forwarded : ForwardedHeaders, peer : Peers]

\* ------------------------------------------------------------------ OIDC
\* _pending_flows holds the states that /auth/login gave out and no
\* callback has popped; a state is new each time (create_authorization_url).
\* exchanging are the callbacks that wait for fetch_token. The history:
\* the states ever issued, the states a callback has popped, and how many
\* sessions each state has given.
OidcStates == {"st1", "st2"}
NoFlows ==
  [enabled |-> FALSE, pending |-> {}, exchanging |-> {}, issued |-> {},
   consumed |-> {}, yielded |-> [st \in OidcStates |-> 0]]

\* The query parameters of a callback: NoneVal for a missing parameter.
CallbackParams ==
  [code : {NoneVal, "", "c"},
   state : OidcStates \cup {NoneVal, "", "unknown-state"},
   error : {NoneVal, "", "access_denied"}]

\* mutant: the state is looked up and stays in _pending_flows
auth_callback_get(enabled, pending, params) ==
  IF ~enabled THEN [proceed |-> FALSE, pending |-> pending]
  ELSE IF truthy(params.error) THEN [proceed |-> FALSE, pending |-> pending]
  ELSE IF ~truthy(params.code) \/ ~truthy(params.state)
  THEN [proceed |-> FALSE, pending |-> pending]
  ELSE IF params.state \notin pending
  THEN [proceed |-> FALSE, pending |-> pending]
  ELSE [proceed |-> TRUE, pending |-> pending]

\* auth_callback up to the await of fetch_token: whether it goes on to the
\* token exchange, and _pending_flows after it.
auth_callback(enabled, pending, params) ==
  IF ~enabled THEN [proceed |-> FALSE, pending |-> pending]
  ELSE IF truthy(params.error) THEN [proceed |-> FALSE, pending |-> pending]
  ELSE IF ~truthy(params.code) \/ ~truthy(params.state)
  THEN [proceed |-> FALSE, pending |-> pending]
  ELSE IF params.state \notin pending
  THEN [proceed |-> FALSE, pending |-> pending]
  ELSE [proceed |-> TRUE, pending |-> pending \ {params.state}]

\* -------------------------------------------------------- ZeroConf primer
\* The threading.Timer objects that _schedule_next makes, by number. A timer
\* is "created" by Timer(), "waiting" once started, "cancelled" by cancel()
\* before it fires, "running" while its thread is in the try block of
\* _periodic_tick, "finally" when that thread has reached the finally
\* clause, "scheduling" when it has assigned the next timer to _timer and
\* not yet started it, and "finished" at the end.
MaxTimers == 4
TimerIds == 1..MaxTimers
NoTimer == 0
NoPrimer ==
  [configured |-> TRUE, timer |-> NoTimer,
   timers |-> [y \in TimerIds |-> "none"],
   main |-> "new", stopped |-> FALSE]

\* Timer.cancel(): it sets the finished event, which only a timer that has
\* not fired looks at.
cancel(timers, y) ==
  IF timers[y] \in {"created", "waiting"}
  THEN [timers EXCEPT ![y] = "cancelled"] ELSE timers

\* Timer.start(): the thread of a cancelled timer ends without a call.
start(timers, y) ==
  IF timers[y] = "created" THEN [timers EXCEPT ![y] = "waiting"] ELSE timers

\* ----------------------------------------------------- accounts and devices
\* The data directory: whether it exists, and for every account id whether
\* its directory (with the devices directory inside) exists and, for every
\* device id, the DeviceInfo.xml of its directory, NoneVal when there is no
\* such directory.
Accounts == {"1", "2"}
Devices == {"D", "E"}
DeviceInfos == {"<info ip=10.0.0.5/>", "<info ip=10.0.0.6/>"}
NoDevices == [d \in Devices |-> NoneVal]
NoAccount == [exists |-> FALSE, devices |-> NoDevices]
EmptyDataDir == [exists |-> TRUE, accounts |-> [a \in Accounts |-> NoAccount]]
NoDataDir == [exists |-> FALSE, accounts |-> [a \in Accounts |-> NoAccount]]

\* What a call of the store returns or raises.
NoException == "<no exception>"
Returned(dir, value, listing) ==
  [dir |-> dir, value |-> value, listing |-> listing, raised |-> NoException]
Raised(dir, exception) ==
  [dir |-> dir, value |-> NoneVal, listing |-> {}, raised |-> exception]

\* next(walk(self.data_dir))[1]: walk yields nothing for a directory that
\* does not exist, and next raises StopIteration.
list_accounts(dir) ==
  IF ~dir.exists THEN Raised(dir, "StopIteration")
  ELSE Returned(dir, NoneVal, {a \in Accounts : dir.accounts[a].exists})

\* mutant: a directory that does not exist is listed as empty
list_devices_lenient(dir, account_id) ==
  IF ~dir.exists \/ ~dir.accounts[account_id].exists
  THEN Returned(dir, NoneVal, {})
  ELSE Returned(dir, NoneVal,
                {d \in Devices : dir.accounts[account_id].devices[d] # NoneVal})

list_devices(dir, account_id) ==
  IF ~dir.exists \/ ~dir.accounts[account_id].exists
  THEN Raised(dir, "StopIteration")
  ELSE Returned(dir, NoneVal,
                {d \in Devices : dir.accounts[account_id].devices[d] # NoneVal})

create_account(dir, account) ==
  LET listed == list_accounts(dir) IN
  IF listed.raised # NoException THEN listed
  ELSE IF account \in listed.listing THEN Returned(dir, "False", {})
  ELSE Returned([dir EXCEPT !.accounts[account] =
                   [exists |-> TRUE, devices |-> NoDevices]], "True", {})

\* mutant: the device info of a device that exists is written again
add_device_overwrite(dir, account, device_id, device_info_xml) ==
  LET listed == list_devices(dir, account) IN
  IF listed.raised # NoException THEN listed
  ELSE Returned([dir EXCEPT !.accounts[account].devices[device_id] =
                   device_info_xml], "None", {})

\* add_device returns False for a device that exists and falls off its end
\* (None) after it has made the directory and written DeviceInfo.xml.
add_device(dir, account, device_id, device_info_xml) ==
  LET listed == list_devices(dir, account) IN
  IF listed.raised # NoException THEN listed
  ELSE IF device_id \in listed.listing THEN Returned(dir, "False", {})
  ELSE Returned([dir EXCEPT !.accounts[account].devices[device_id] =
                   device_info_xml], "None", {})

\* get_device_info(...).ip_address: the ipAddress of the SCM networkInfo
ip_address_of(device_info_xml) ==
  IF device_info_xml = "<info ip=10.0.0.5/>" THEN "10.0.0.5" ELSE "10.0.0.6"

\* SpeakerAllowlist.refresh: the addresses of every device of every
\* account; a listing that raises gives nothing.
refresh(dir) ==
  LET accounts == list_accounts(dir) IN
  IF accounts.raised # NoException THEN {}
  ELSE { ip_address_of(dir.accounts[a].devices[d]) :
           <<a, d>> \in { <<a, d>> \in Accounts \X Devices :
                            /\ a \in accounts.listing
                            /\ d \in list_devices(dir, a).listing } }

\* The data directories a run starts from.
InitDataDirs ==
  { NoDataDir, EmptyDataDir,
    [EmptyDataDir EXCEPT !.accounts["1"] =
       [exists |-> TRUE, devices |-> NoDevices]],
    [EmptyDataDir EXCEPT !.accounts["1"] =
       [exists |-> TRUE,
        devices |-> [NoDevices EXCEPT !["D"] = "<info ip=10.0.0.5/>"]]] }

\* ------------------------------------------------------------ change tokens
\* path.getmtime of the three files of an account, in the unit of the clock;
\* a write stamps the file with the clock value at the write.
InitMtime == [presets |-> 20, recents |-> 20, sources |-> 20]

etag_for_presets(mt) == mt.presets * 1000
etag_for_sources(mt) == mt.sources * 1000
etag_for_recents(mt) == mt.recents * 1000

max(a, b, c) ==
  IF a >= b /\ a >= c THEN a ELSE IF b >= c THEN b ELSE c

etag_for_account(mt) ==
  max(etag_for_presets(mt), etag_for_sources(mt), etag_for_recents(mt))

\* ------------------------------------------------------------------- state
VARIABLES
  soundcork_mode,   \* Settings.soundcork_mode
  now,              \* the clock: time.monotonic(), datetime.now()
  circuits,         \* _circuit_breaker._circuits
  tasks,            \* the request tasks and where each stands
  recents_file,     \* Recents.xml of the account
  presets_file,     \* Presets.xml of the account
  ret,              \* what the last codec call returned
  calls,            \* number of codec calls so far
  workers,          \* the server processes and where each stands in its call
  call,             \* the arguments of content_item_source_xml
  resolved,         \* what content_item_source_xml returned for them
  mtime,            \* modification times of Presets.xml, Recents.xml, Sources.xml
  data_dir,         \* the data directory: its account and device directories
  traffic_log,      \* traffic.jsonl: whether it can be written, and its entries
  exchange,         \* the header names of one forwarded request and its response
  webui,            \* the SessionStore of the web UI, with the history of its ids
  allowed_ips,      \* SpeakerAllowlist._allowed_ips
  oidc,             \* the OIDC flows: _pending_flows, with their history
  primer            \* ZeroConfPrimer._timer, its timers and their threads

auxVars == <<data_dir, exchange, webui, allowed_ips, oidc, primer>>
exceptRegistry == <<exchange, webui, allowed_ips, oidc, primer>>
exceptHeaders == <<data_dir, webui, allowed_ips, oidc, primer>>
exceptWebui == <<data_dir, exchange, allowed_ips, oidc, primer>>
exceptPrimer == <<data_dir, exchange, webui, allowed_ips, oidc>>
vars == <<soundcork_mode, now, circuits, tasks, recents_file, presets_file,
          ret, calls, workers, call, resolved, mtime, auxVars, traffic_log>>
proxyVars == <<soundcork_mode, circuits, tasks, traffic_log>>
storeVars == <<recents_file, presets_file, ret, calls, workers, call, resolved,
               mtime, auxVars>>

\* The variables above as they are when their part of the program is idle.
AuxIdle ==
  /\ data_dir = EmptyDataDir
  /\ traffic_log = UnwritableLog
  /\ exchange = NoExchange
  /\ webui = NoSessions
  /\ allowed_ips = {}
  /\ oidc = NoFlows
  /\ primer = NoPrimer

NoReq == [method |-> "", path |-> <<>>]
NoResp == [origin |-> "none", status |-> 0]
IdleTask ==
  [pc |-> "idle", req |-> NoReq, upstream |-> "", forwarded |-> FALSE,
   probe |-> FALSE, fallback |-> "none", upres |-> RequestError, resp |-> NoResp]

Slots == 1..MaxInFlight

\* fallback=f"upstream_http_{upstream_resp.status_code}"
fallback_reason(task) ==
  IF task.fallback # "upstream_http" THEN task.fallback
  ELSE IF task.upres = 404 THEN "upstream_http_404"
  ELSE "upstream_http_500"

\* The handlers that read the account's files, and raise what the read raises.
CanRaise(r) ==
  route(r) \in {"put_account_preset", "post_account_recent", "account_recents"}

\* ProxyMiddleware._log_local entered: the request waits in call_next.
log_local(task, fallback) ==
  [task EXCEPT !.pc = "local", !.fallback = fallback]

\* ProxyMiddleware._forward_with_fallback up to the await of client.request
forward_with_fallback(r, upstream_base, cs, t) ==
  LET task == [IdleTask EXCEPT !.req = r, !.upstream = upstream_base] IN
  IF is_open(cs, upstream_base, t)
  THEN log_local(task, "circuit_open")
  ELSE [task EXCEPT !.pc = "upstream", !.forwarded = TRUE,
                    !.probe = (get_status(cs, upstream_base, t) = "half-open (probing)")]

\* mutant: the mode is not looked at
dispatch_any_mode(s, r) ==
  /\ tasks[s].pc \in {"idle", "done"}
  /\ Len(traffic_log.entries) < MaxLog
  /\ LET match == match_upstream(r.path) IN
     tasks' = [tasks EXCEPT ![s] =
       IF ~match.matched
       THEN log_local([IdleTask EXCEPT !.req = r], "none")
       ELSE forward_with_fallback(r, match.upstream, circuits, now)]
  /\ UNCHANGED <<soundcork_mode, now, circuits, storeVars, traffic_log>>

\* ProxyMiddleware.dispatch: a request arrives on a free task and runs up to
\* its first await (call_next or client.request).
dispatch(s, r) ==
  /\ tasks[s].pc \in {"idle", "done"}
  /\ Len(traffic_log.entries) < MaxLog
  /\ LET match == match_upstream(r.path) IN
     tasks' = [tasks EXCEPT ![s] =
       IF soundcork_mode # "proxy"
       THEN [IdleTask EXCEPT !.req = r, !.pc = "local"]
       ELSE IF ~match.matched
            THEN log_local([IdleTask EXCEPT !.req = r], "none")
            ELSE forward_with_fallback(r, match.upstream, circuits, now)]
  /\ UNCHANGED <<soundcork_mode, now, circuits, storeVars, traffic_log>>

\* client.request returns or raises: the rest of _forward_with_fallback up
\* to its return or to the await inside _log_local.
upstream_response(s, out) ==
  /\ tasks[s].pc = "upstream"
  /\ LET u == tasks[s].upstream IN
     IF out = RequestError
     THEN /\ circuits[u].failures < MaxFailures
          /\ circuits' = record_failure(circuits, u, now)
          /\ traffic_log' = log_exchange(traffic_log, tasks[s].req, u, 502,
                                          "upstream_error")
          /\ tasks' = [tasks EXCEPT ![s] =
               log_local([tasks[s] EXCEPT !.upres = out], "upstream_error")]
     ELSE IF is_fallback_status(out)
     THEN /\ circuits[u].failures < MaxFailures
          /\ circuits' = record_failure(circuits, u, now)
          /\ traffic_log' = log_exchange(traffic_log, tasks[s].req, u, out,
                                          "none")
          /\ tasks' = [tasks EXCEPT ![s] =
               log_local([tasks[s] EXCEPT !.upres = out], "upstream_http")]
     ELSE /\ circuits' = record_success(circuits, u)
          /\ traffic_log' = log_exchange(traffic_log, tasks[s].req, u, out,
                                          "none")
          /\ tasks' = [tasks EXCEPT ![s] =
               [tasks[s] EXCEPT !.pc = "done", !.upres = out,
                  !.resp = [origin |-> "upstream", status |-> out]]]
  /\ UNCHANGED <<soundcork_mode, now, storeVars>>

\* call_next returns: the local handler's response goes back to the caller,
\* through the rest of _log_local in proxy mode.
local_response(s, status) ==
  /\ tasks[s].pc = "local"
  /\ status \in LocalStatuses(tasks[s].req)
  /\ tasks' = [tasks EXCEPT ![s] =
       [tasks[s] EXCEPT !.pc = "done",
          !.resp = [origin |-> "local", status |-> status]]]
  /\ traffic_log' =
       IF soundcork_mode = "proxy"
       THEN log_exchange(traffic_log, tasks[s].req, "local", status,
                         fallback_reason(tasks[s]))
       ELSE traffic_log
  /\ UNCHANGED <<soundcork_mode, now, circuits, storeVars>>

\* call_next raises what the handler raised (no exception handler is
\* registered): dispatch and _log_local are left by the exception, and the
\* server answers 500.
local_raises(s) ==
  /\ tasks[s].pc = "local"
  /\ CanRaise(tasks[s].req)
  /\ tasks' = [tasks EXCEPT ![s] =
       [tasks[s] EXCEPT !.pc = "done",
          !.resp = [origin |-> "local", status |-> 500]]]
  /\ UNCHANGED <<soundcork_mode, now, circuits, storeVars, traffic_log>>

\* The clock advances.
TickSteps == {300, 301}
Tick(d) ==
  /\ d \in TickSteps
  /\ now + d <= MaxTime
  /\ now' = now + d
  /\ UNCHANGED <<proxyVars, storeVars>>

\* post_account_recent: add_recent runs against the store.
AddRecent(source_xml) ==
  /\ calls < MaxCalls
  /\ LET result == add_recent(recents_file, source_xml, now) IN
     /\ recents_file' = result.file
     /\ ret' = result.ret
     /\ mtime' = IF result.saved THEN [mtime EXCEPT !.recents = now] ELSE mtime
  /\ calls' = calls + 1
  /\ UNCHANGED <<now, proxyVars, presets_file, workers, call, resolved, auxVars>>

\* put_account_preset: update_preset runs against the store.
UpdatePreset(preset_number, source_xml) ==
  /\ calls < MaxCalls
  /\ LET result == update_preset(presets_file, preset_number, source_xml, now) IN
     /\ presets_file' = result.file
     /\ ret' = result.ret
     /\ mtime' = IF result.saved THEN [mtime EXCEPT !.presets = now] ELSE mtime
  /\ calls' = calls + 1
  /\ UNCHANGED <<now, proxyVars, recents_file, workers, call, resolved, auxVars>>

\* The server runs as several gunicorn worker processes over one data
\* directory. Inside a process a call runs from its read to its save without
\* an await; between processes the reads and saves of the files interleave.
Workers == 1..MaxWorkers
NoResult == [file |-> <<>>, saved |-> FALSE, ret |-> NoRet]
IdleWorker ==
  [pc |-> "idle", op |-> "none", snapshot |-> <<>>, arg |-> NoBody, slot |-> 0,
   t |-> 0, result |-> NoResult, overlapped |-> {}]

\* add_recent in process w up to datastore.get_recents; what it then
\* computes depends on what it has read only.
add_recent_read(w, source_xml) ==
  /\ workers[w].pc = "idle"
  /\ workers' = [workers EXCEPT ![w] =
       [IdleWorker EXCEPT !.pc = "read", !.op = "add_recent",
          !.snapshot = recents_file, !.arg = source_xml, !.t = now,
          !.result = add_recent(recents_file, source_xml, now)]]
  /\ UNCHANGED <<now, proxyVars, recents_file, presets_file, ret, calls,
                 call, resolved, mtime, auxVars>>

\* update_preset in process w up to datastore.get_presets
update_preset_read(w, preset_number, source_xml) ==
  /\ workers[w].pc = "idle"
  /\ workers' = [workers EXCEPT ![w] =
       [IdleWorker EXCEPT !.pc = "read", !.op = "update_preset",
          !.snapshot = presets_file, !.arg = source_xml,
          !.slot = preset_number, !.t = now,
          !.result = update_preset(presets_file, preset_number, source_xml, now)]]
  /\ UNCHANGED <<now, proxyVars, recents_file, presets_file, ret, calls,
                 call, resolved, mtime, auxVars>>

\* mutant: the save re-reads the file and applies the call to what is
\* stored now, as under a lock around the read-modify-write
save_reread(w) ==
  /\ workers[w].pc = "read"
  /\ LET mine == workers[w]
         again == IF mine.op = "add_recent"
                  THEN add_recent(recents_file, mine.arg, mine.t)
                  ELSE update_preset(presets_file, mine.slot, mine.arg, mine.t)
     IN
     /\ recents_file' = IF mine.op = "add_recent" /\ again.saved
                        THEN again.file ELSE recents_file
     /\ presets_file' = IF mine.op = "update_preset" /\ again.saved
                        THEN again.file ELSE presets_file
     /\ mtime' = IF ~again.saved THEN mtime
                 ELSE IF mine.op = "add_recent"
                      THEN [mtime EXCEPT !.recents = now]
                      ELSE [mtime EXCEPT !.presets = now]
     /\ workers' = [workers EXCEPT ![w] =
          [mine EXCEPT !.pc = "done", !.result = again,
             !.overlapped = {o \in Workers \ {w} :
                workers[o].pc = "read" /\ workers[o].op = mine.op}]]
  /\ UNCHANGED <<now, proxyVars, ret, calls, call, resolved, auxVars>>

\* the rest of the call in process w: save_recents or save_presets when the
\* call got that far, then the response. overlapped records the processes
\* that have read the same file and not saved yet.
save(w) ==
  /\ workers[w].pc = "read"
  /\ LET mine == workers[w] IN
     /\ recents_file' = IF mine.op = "add_recent" /\ mine.result.saved
                        THEN mine.result.file ELSE recents_file
     /\ presets_file' = IF mine.op = "update_preset" /\ mine.result.saved
                        THEN mine.result.file ELSE presets_file
     /\ mtime' = IF ~mine.result.saved THEN mtime
                 ELSE IF mine.op = "add_recent"
                      THEN [mtime EXCEPT !.recents = now]
                      ELSE [mtime EXCEPT !.presets = now]
     /\ workers' = [workers EXCEPT ![w] =
          [mine EXCEPT !.pc = "done",
             !.overlapped = {o \in Workers \ {w} :
                workers[o].pc = "read" /\ workers[o].op = mine.op}]]
  /\ UNCHANGED <<now, proxyVars, ret, calls, call, resolved, auxVars>>

\* content_item_source_xml is called on the arguments.
Resolve ==
  /\ resolved = Pending
  /\ mtime = InitMtime
  /\ AuxIdle
  /\ resolved' = content_item_source_xml(call.configured_sources,
                                         call.content_item)
  /\ UNCHANGED <<now, proxyVars, recents_file, presets_file, ret, calls,
                 workers, call, mtime, auxVars>>

\* A call of the store on the data directory; ret holds what it gave.
RegistryRet(op, account, device, xml, result) ==
  [op |-> op, account |-> account, device |-> device, xml |-> xml,
   value |-> result.value, listing |-> result.listing,
   raised |-> result.raised]

CreateAccount(account) ==
  /\ LET result == create_account(data_dir, account) IN
     /\ data_dir' = result.dir
     /\ ret' = RegistryRet("create_account", account, NoneVal, NoneVal, result)
  /\ UNCHANGED <<now, proxyVars, recents_file, presets_file, calls, workers,
                 call, resolved, mtime, exceptRegistry>>

AddDevice(account, device_id, device_info_xml) ==
  /\ LET result == add_device(data_dir, account, device_id, device_info_xml) IN
     /\ data_dir' = result.dir
     /\ ret' = RegistryRet("add_device", account, device_id, device_info_xml,
                           result)
  /\ UNCHANGED <<now, proxyVars, recents_file, presets_file, calls, workers,
                 call, resolved, mtime, exceptRegistry>>

ListAccounts ==
  /\ LET result == list_accounts(data_dir) IN
     /\ data_dir' = result.dir
     /\ ret' = RegistryRet("list_accounts", NoneVal, NoneVal, NoneVal, result)
  /\ UNCHANGED <<now, proxyVars, recents_file, presets_file, calls, workers,
                 call, resolved, mtime, exceptRegistry>>

ListDevices(account_id) ==
  /\ LET result == list_devices(data_dir, account_id) IN
     /\ data_dir' = result.dir
     /\ ret' = RegistryRet("list_devices", account_id, NoneVal, NoneVal, result)
  /\ UNCHANGED <<now, proxyVars, recents_file, presets_file, calls, workers,
                 call, resolved, mtime, exceptRegistry>>

\* _forward_with_fallback builds the headers of the upstream request.
ForwardHeaders(headers) ==
  /\ exchange.stage \in {"idle", "returned"}
  /\ exchange' = [NoExchange EXCEPT !.stage = "forwarded",
                     !.request_headers = headers,
                     !.fwd_headers = fwd_headers(headers)]
  /\ UNCHANGED <<now, proxyVars, recents_file, presets_file, ret, calls,
                 workers, call, resolved, mtime, exceptHeaders>>

\* _forward_with_fallback builds the response from a successful upstream
\* response.
ReturnHeaders(resp_headers) ==
  /\ exchange.stage = "forwarded"
  /\ exchange' = [exchange EXCEPT !.stage = "returned",
                     !.resp_headers = resp_headers,
                     !.return_headers = return_headers(resp_headers)]
  /\ UNCHANGED <<now, proxyVars, recents_file, presets_file, ret, calls,
                 workers, call, resolved, mtime, exceptHeaders>>

\* SessionStore.create, called by the login handler and the OIDC callback.
WebuiRet(op, id, request, result) ==
  [op |-> op, session_id |-> id, request |-> request, value |-> result.value,
   rejected |-> result.rejected, status |-> result.status]

Create(session_id, csrf_token) ==
  /\ webui.issued[session_id] = NoneVal
  /\ webui' = [sessions |-> create(webui.sessions, session_id, csrf_token),
               issued |-> [webui.issued EXCEPT ![session_id] = csrf_token],
               live |-> webui.live \cup {session_id}]
  /\ ret' = WebuiRet("create", session_id, NoRequest,
                     [value |-> csrf_token, rejected |-> FALSE, status |-> 0])
  /\ UNCHANGED <<now, proxyVars, recents_file, presets_file, calls, workers,
                 call, resolved, mtime, exceptWebui>>

Validate(session_id) ==
  /\ ret' = WebuiRet("validate", session_id, NoRequest,
                     [value |-> validate(webui.sessions, session_id),
                      rejected |-> FALSE, status |-> 0])
  /\ UNCHANGED <<now, proxyVars, recents_file, presets_file, calls, workers,
                 call, resolved, mtime, auxVars>>

Destroy(session_id) ==
  /\ webui' = [webui EXCEPT !.sessions = destroy(@, session_id),
                            !.live = @ \ {session_id}]
  /\ ret' = WebuiRet("destroy", session_id, NoRequest,
                     [value |-> NoneVal, rejected |-> FALSE, status |-> 0])
  /\ UNCHANGED <<now, proxyVars, recents_file, presets_file, calls, workers,
                 call, resolved, mtime, exceptWebui>>

\* POST /webui/api/logout of a session that passed webui_auth: the session
\* of the cookie is destroyed.
Logout(session_id) ==
  /\ validate(webui.sessions, session_id) # NoneVal
  /\ webui' = [webui EXCEPT !.sessions = destroy(@, session_id),
                            !.live = @ \ {session_id}]
  /\ ret' = WebuiRet("logout", session_id, NoRequest,
                     [value |-> NoneVal, rejected |-> FALSE, status |-> 200])
  /\ UNCHANGED <<now, proxyVars, recents_file, presets_file, calls, workers,
                 call, resolved, mtime, exceptWebui>>

\* A request comes to the webui_auth middleware.
WebuiAuth(request) ==
  /\ LET result == http_middleware_webui_auth(webui.sessions, request) IN
     ret' = WebuiRet("webui_auth", request.cookie, request,
                     [value |-> NoneVal, rejected |-> result.rejected,
                      status |-> result.status])
  /\ UNCHANGED <<now, proxyVars, recents_file, presets_file, calls, workers,
                 call, resolved, mtime, auxVars>>

\* SpeakerAllowlist.refresh and is_allowed.
Refresh ==
  /\ allowed_ips' = refresh(data_dir)
  /\ ret' = [op |-> "refresh"]
  /\ UNCHANGED <<now, proxyVars, recents_file, presets_file, calls, workers,
                 call, resolved, mtime, data_dir, exchange, webui, oidc, primer>>

IsAllowed(ip) ==
  /\ ret' = [op |-> "is_allowed", ip |-> ip,
             value |-> IF is_allowed(allowed_ips, ip) THEN "True" ELSE "False"]
  /\ UNCHANGED <<now, proxyVars, recents_file, presets_file, calls, workers,
                 call, resolved, mtime, auxVars>>

\* proxy_speaker_get, proxy_speaker_post and proxy_speaker_websocket:
\* what is answered and the host a connection is opened to, NoneVal for
\* none. A speaker answers, or the connection fails (502) or times out (504).
is_registered_speaker(ips, ip) == ip \in ips

\* mutant: the check of the protocol endpoints is used
proxy_speaker_is_allowed(ips, kind, ip, outcome) ==
  IF ~is_allowed(ips, ip)
  THEN [status |-> IF kind = "WS" THEN 4003 ELSE 403, outbound |-> NoneVal]
  ELSE [status |-> outcome, outbound |-> ip]

proxy_speaker(ips, kind, ip, outcome) ==
  IF ~is_registered_speaker(ips, ip)
  THEN [status |-> IF kind = "WS" THEN 4003 ELSE 403, outbound |-> NoneVal]
  ELSE [status |-> outcome, outbound |-> ip]

ProxySpeaker(kind, ip, outcome) ==
  /\ LET result == proxy_speaker(allowed_ips, kind, ip, outcome) IN
     ret' = [op |-> "proxy_speaker", kind |-> kind, ip |-> ip,
             status |-> result.status, outbound |-> result.outbound]
  /\ UNCHANGED <<now, proxyVars, recents_file, presets_file, calls, workers,
                 call, resolved, mtime, auxVars>>

\* GET /auth/login: a redirect to the login page when OIDC is off, 502
\* when the discovery fails, and a new pending state otherwise.
OidcRet(op, params, status, location, session) ==
  [op |-> op, params |-> params, status |-> status, location |-> location,
   session |-> session]
NoParams == [code |-> NoneVal, state |-> NoneVal, error |-> NoneVal]

AuthLogin(discovered) ==
  /\ IF ~oidc.enabled
     THEN /\ ret' = OidcRet("auth_login", NoParams, 302, "/webui/login", FALSE)
          /\ oidc' = oidc
     ELSE IF ~discovered
     THEN /\ ret' = OidcRet("auth_login", NoParams, 502, "", FALSE)
          /\ oidc' = oidc
     ELSE \E state \in OidcStates \ oidc.issued :
            /\ ret' = OidcRet("auth_login", [NoParams EXCEPT !.state = state],
                              302, "provider", FALSE)
            /\ oidc' = [oidc EXCEPT !.pending = @ \cup {state},
                                    !.issued = @ \cup {state}]
  /\ UNCHANGED <<now, proxyVars, recents_file, presets_file, calls, workers,
                 call, resolved, mtime, data_dir, exchange, webui,
                 allowed_ips, primer>>

\* GET /auth/callback up to its return or to the await of fetch_token.
AuthCallback(params) ==
  /\ LET result == auth_callback(oidc.enabled, oidc.pending, params) IN
     IF result.proceed
     THEN /\ oidc' = [oidc EXCEPT !.pending = result.pending,
                                  !.exchanging = @ \cup {params.state},
                                  !.consumed = @ \cup {params.state}]
          /\ ret' = OidcRet("auth_callback", params, 0, "", FALSE)
     ELSE /\ oidc' = [oidc EXCEPT !.pending = result.pending]
          /\ ret' = OidcRet("auth_callback", params, 302, "/webui/login",
                            FALSE)
  /\ UNCHANGED <<now, proxyVars, recents_file, presets_file, calls, workers,
                 call, resolved, mtime, data_dir, exchange, webui,
                 allowed_ips, primer>>

\* fetch_token returns or raises: the rest of auth_callback.
TokenExchange(state, fetched) ==
  /\ state \in oidc.exchanging
  /\ IF fetched
     THEN \E session_id \in SessionIds, csrf_token \in CsrfTokens :
            /\ webui.issued[session_id] = NoneVal
            /\ webui' =
                 [sessions |-> create(webui.sessions, session_id, csrf_token),
                  issued |-> [webui.issued EXCEPT ![session_id] = csrf_token],
                  live |-> webui.live \cup {session_id}]
            /\ oidc' = [oidc EXCEPT !.exchanging = @ \ {state},
                                    !.yielded[state] = @ + 1]
            /\ ret' = OidcRet("token_exchange",
                              [NoParams EXCEPT !.state = state],
                              302, "/webui/", TRUE)
     ELSE /\ webui' = webui
          /\ oidc' = [oidc EXCEPT !.exchanging = @ \ {state}]
          /\ ret' = OidcRet("token_exchange",
                            [NoParams EXCEPT !.state = state],
                            302, "/webui/login", FALSE)
  /\ UNCHANGED <<now, proxyVars, recents_file, presets_file, calls, workers,
                 call, resolved, mtime, data_dir, exchange, allowed_ips, primer>>

\* start_periodic, on the main thread before any timer exists: nothing
\* when Spotify is not configured, else _schedule_next.
StartPeriodic ==
  /\ primer.main = "new"
  /\ primer' =
       IF ~primer.configured THEN [primer EXCEPT !.main = "idle"]
       ELSE LET y == CHOOSE y \in TimerIds : primer.timers[y] = "none" IN
            [primer EXCEPT !.main = "idle", !.timer = y,
                           !.timers = start([@ EXCEPT ![y] = "created"], y)]
  /\ UNCHANGED <<now, proxyVars, recents_file, presets_file, ret, calls,
                 workers, call, resolved, mtime, exceptPrimer>>

\* Timer.run: the interval has passed and the timer is not cancelled, the
\* thread of the timer enters _periodic_tick.
TimerRun(y) ==
  /\ primer.timers[y] = "waiting"
  /\ primer' = [primer EXCEPT !.timers[y] = "running"]
  /\ UNCHANGED <<now, proxyVars, recents_file, presets_file, ret, calls,
                 workers, call, resolved, mtime, exceptPrimer>>

\* The try block of _periodic_tick ends, by return or by exception.
PeriodicTick(y) ==
  /\ primer.timers[y] = "running"
  /\ primer' = [primer EXCEPT !.timers[y] = "finally"]
  /\ UNCHANGED <<now, proxyVars, recents_file, presets_file, ret, calls,
                 workers, call, resolved, mtime, exceptPrimer>>

\* _schedule_next in the finally clause: self._timer = threading.Timer(..).
ScheduleNext(y) ==
  /\ primer.timers[y] = "finally"
  /\ \E z \in TimerIds :
       /\ primer.timers[z] = "none"
       /\ primer' = [primer EXCEPT !.timers[y] = "scheduling",
                                   !.timers[z] = "created",
                                   !.timer = z]
  /\ UNCHANGED <<now, proxyVars, recents_file, presets_file, ret, calls,
                 workers, call, resolved, mtime, exceptPrimer>>

\* _schedule_next: self._timer.start(), on whatever _timer is by now; on
\* None the attribute access raises and the thread ends.
ScheduleNextStart(y) ==
  /\ primer.timers[y] = "scheduling"
  /\ primer' =
       [primer EXCEPT
          !.timers = [(IF primer.timer = NoTimer THEN @
                       ELSE start(@, primer.timer)) EXCEPT ![y] = "finished"]]
  /\ UNCHANGED <<now, proxyVars, recents_file, presets_file, ret, calls,
                 workers, call, resolved, mtime, exceptPrimer>>

\* stop_periodic: if self._timer.
StopPeriodicCheck ==
  /\ primer.main = "idle" /\ ~primer.stopped
  /\ primer' = IF primer.timer = NoTimer
               THEN [primer EXCEPT !.stopped = TRUE]
               ELSE [primer EXCEPT !.main = "cancel"]
  /\ UNCHANGED <<now, proxyVars, recents_file, presets_file, ret, calls,
                 workers, call, resolved, mtime, exceptPrimer>>

\* stop_periodic: self._timer.cancel().
StopPeriodicCancel ==
  /\ primer.main = "cancel"
  /\ primer' = [primer EXCEPT !.main = "clear",
                              !.timers = cancel(@, primer.timer)]
  /\ UNCHANGED <<now, proxyVars, recents_file, presets_file, ret, calls,
                 workers, call, resolved, mtime, exceptPrimer>>

\* stop_periodic: self._timer = None, and the return.
StopPeriodicClear ==
  /\ primer.main = "clear"
  /\ primer' = [primer EXCEPT !.main = "idle", !.timer = NoTimer,
                              !.stopped = TRUE]
  /\ UNCHANGED <<now, proxyVars, recents_file, presets_file, ret, calls,
                 workers, call, resolved, mtime, exceptPrimer>>

\* A request comes to the speaker_ip_restriction middleware.
SpeakerIpRestriction(request) ==
  /\ LET result == speaker_ip_restriction(allowed_ips, request) IN
     ret' = [op |-> "speaker_ip_restriction", request |-> request,
             rejected |-> result.rejected, status |-> result.status]
  /\ UNCHANGED <<now, proxyVars, recents_file, presets_file, calls, workers,
                 call, resolved, mtime, auxVars>>

Init ==
  /\ soundcork_mode \in {"proxy", "local"}
  /\ now = 0
  /\ circuits = [u \in Upstreams |-> NoState]
  /\ tasks = [s \in Slots |-> IdleTask]
  /\ recents_file = <<>>
  /\ presets_file = <<>>
  /\ ret = NoRet
  /\ calls = 0
  /\ workers = [w \in Workers |-> IdleWorker]
  /\ call = NoCall
  /\ resolved = Pending
  /\ mtime = InitMtime
  /\ AuxIdle

\* Concurrent requests to one mapped path.
Next ==
  \/ \E s \in Slots, r \in CircuitRequests : dispatch(s, r)
  \/ \E s \in Slots, out \in UpstreamOutcomes : upstream_response(s, out)
  \/ \E s \in Slots, status \in {200, 400, 404} : local_response(s, status)
  \/ \E d \in TickSteps : Tick(d)

Spec == Init /\ [][Next]_vars

\* One request at a time, over every kind of request.
NextSerial ==
  \/ \E r \in Requests : dispatch(1, r)
  \/ \E out \in UpstreamOutcomes : upstream_response(1, out)
  \/ \E status \in {200, 400, 404} : local_response(1, status)
  \/ \E d \in TickSteps : Tick(d)

SpecSerial == Init /\ [][NextSerial]_vars

\* One request at a time with a traffic log that can be written.
LogRequests == CircuitRequests \cup { [method |-> "GET", path |-> <<"/">>] }

InitLog ==
  /\ soundcork_mode \in {"proxy", "local"}
  /\ now = 0
  /\ circuits = [u \in Upstreams |-> NoState]
  /\ tasks = [s \in Slots |-> IdleTask]
  /\ recents_file = <<>>
  /\ presets_file = <<>>
  /\ ret = NoRet
  /\ calls = 0
  /\ workers = [w \in Workers |-> IdleWorker]
  /\ call = NoCall
  /\ resolved = Pending
  /\ mtime = InitMtime
  /\ data_dir = EmptyDataDir
  /\ traffic_log = EmptyLog
  /\ exchange = NoExchange
  /\ webui = NoSessions
  /\ allowed_ips = {}
  /\ oidc = NoFlows
  /\ primer = NoPrimer

NextLog ==
  \/ \E r \in LogRequests : dispatch(1, r)
  \/ \E out \in UpstreamOutcomes : upstream_response(1, out)
  \/ \E status \in {200, 400, 404} : local_response(1, status)
  \/ local_raises(1)
  \/ \E d \in TickSteps : Tick(d)

SpecLog == InitLog /\ [][NextLog]_vars

\* The headers of forwarded exchanges.
InitHeaders == Init

NextHeaders ==
  \/ \E headers \in HeaderSets : ForwardHeaders(headers)
  \/ \E resp_headers \in HeaderSets : ReturnHeaders(resp_headers)

SpecHeaders == InitHeaders /\ [][NextHeaders]_vars

\* The session store and the webui_auth middleware.
InitWebui == Init /\ soundcork_mode = "local"

NextWebui ==
  \/ \E session_id \in SessionIds, csrf_token \in CsrfTokens :
       Create(session_id, csrf_token)
  \/ \E session_id \in CookieValues : Validate(session_id)
  \/ \E session_id \in CookieValues : Destroy(session_id)
  \/ \E session_id \in CookieValues : Logout(session_id)
  \/ \E request \in WebuiRequests : WebuiAuth(request)

SpecWebui == InitWebui /\ [][NextWebui]_vars

\* The speaker ip restriction, with no speaker and with one registered.
InitIp ==
  /\ soundcork_mode = "local"
  /\ now = 0
  /\ circuits = [u \in Upstreams |-> NoState]
  /\ tasks = [s \in Slots |-> IdleTask]
  /\ recents_file = <<>>
  /\ presets_file = <<>>
  /\ ret = NoRet
  /\ calls = 0
  /\ workers = [w \in Workers |-> IdleWorker]
  /\ call = NoCall
  /\ resolved = Pending
  /\ mtime = InitMtime
  /\ data_dir = EmptyDataDir
  /\ traffic_log = UnwritableLog
  /\ exchange = NoExchange
  /\ webui = NoSessions
  /\ allowed_ips \in {{}, {"8.8.8.8"}}
  /\ oidc = NoFlows
  /\ primer = NoPrimer

NextIp == \E request \in IpRequests : SpeakerIpRestriction(request)

SpecIp == InitIp /\ [][NextIp]_vars

\* Presets and recents of every configured source: of one of two sources
\* with the same provider and account, and of a source whose provider is
\* not in PROVIDERS.
SourceIds == {"1", "2", "7", "8"}
RenderRecentBodies ==
  { [name |-> "WXRV", sourceid |-> sid, location |-> l,
     lastplayedat |-> NoTime] : sid \in SourceIds, l \in Locations }
RenderPresetBodies ==
  { [name |-> "WXRV", sourceid |-> sid, location |-> l,
     contentItemType |-> "stationurl", containerArt |-> ""] :
      sid \in SourceIds, l \in Locations }
InitRender ==
  /\ soundcork_mode = "local"
  /\ now = 100
  /\ circuits = [u \in Upstreams |-> NoState]
  /\ tasks = [s \in Slots |-> IdleTask]
  /\ recents_file \in InitRecentsFiles \ {<<>>, FullRecentsFile}
  /\ presets_file \in {f \in InitPresetsFiles \ {<<>>} : f[1].id = 1}
  /\ ret = NoRet
  /\ calls = 0
  /\ workers = [w \in Workers |-> IdleWorker]
  /\ call = NoCall
  /\ resolved = Pending
  /\ mtime = InitMtime
  /\ AuxIdle

NextRender ==
  \/ \E source_xml \in RenderRecentBodies : AddRecent(source_xml)
  \/ \E preset_number \in {1, 2}, source_xml \in RenderPresetBodies :
       UpdatePreset(preset_number, source_xml)

SpecRender == InitRender /\ [][NextRender]_vars

\* The periodic primer: the main thread starts and stops it, the threads
\* of the timers run the ticks.
InitPrimer ==
  /\ soundcork_mode = "local"
  /\ now = 0
  /\ circuits = [u \in Upstreams |-> NoState]
  /\ tasks = [s \in Slots |-> IdleTask]
  /\ recents_file = <<>>
  /\ presets_file = <<>>
  /\ ret = NoRet
  /\ calls = 0
  /\ workers = [w \in Workers |-> IdleWorker]
  /\ call = NoCall
  /\ resolved = Pending
  /\ mtime = InitMtime
  /\ data_dir = EmptyDataDir
  /\ traffic_log = UnwritableLog
  /\ exchange = NoExchange
  /\ webui = NoSessions
  /\ allowed_ips = {}
  /\ oidc = NoFlows
  /\ primer \in {NoPrimer, [NoPrimer EXCEPT !.configured = FALSE]}

NextPrimer ==
  \/ StartPeriodic
  \/ \E y \in TimerIds : TimerRun(y)
  \/ \E y \in TimerIds : PeriodicTick(y)
  \/ \E y \in TimerIds : ScheduleNext(y)
  \/ \E y \in TimerIds : ScheduleNextStart(y)
  \/ StopPeriodicCheck
  \/ StopPeriodicCancel
  \/ StopPeriodicClear

SpecPrimer == InitPrimer /\ [][NextPrimer]_vars

\* The OIDC login flow, with OIDC enabled and disabled.
InitOidc ==
  /\ soundcork_mode = "local"
  /\ now = 0
  /\ circuits = [u \in Upstreams |-> NoState]
  /\ tasks = [s \in Slots |-> IdleTask]
  /\ recents_file = <<>>
  /\ presets_file = <<>>
  /\ ret = NoRet
  /\ calls = 0
  /\ workers = [w \in Workers |-> IdleWorker]
  /\ call = NoCall
  /\ resolved = Pending
  /\ mtime = InitMtime
  /\ data_dir = EmptyDataDir
  /\ traffic_log = UnwritableLog
  /\ exchange = NoExchange
  /\ webui = NoSessions
  /\ allowed_ips = {}
  /\ oidc \in {NoFlows, [NoFlows EXCEPT !.enabled = TRUE]}
  /\ primer = NoPrimer

NextOidc ==
  \/ \E discovered \in BOOLEAN : AuthLogin(discovered)
  \/ \E params \in CallbackParams : AuthCallback(params)
  \/ \E state \in OidcStates, fetched \in BOOLEAN :
       TokenExchange(state, fetched)

SpecOidc == InitOidc /\ [][NextOidc]_vars

\* The allowlist over a data directory in which devices are registered.
AllowlistProbes ==
  {"10.0.0.5", "10.0.0.6", "127.0.0.1", "::1", "203.0.113.99",
   "192.168.1.143"}

InitAllowlist ==
  /\ soundcork_mode = "local"
  /\ now = 0
  /\ circuits = [u \in Upstreams |-> NoState]
  /\ tasks = [s \in Slots |-> IdleTask]
  /\ recents_file = <<>>
  /\ presets_file = <<>>
  /\ ret = NoRet
  /\ calls = 0
  /\ workers = [w \in Workers |-> IdleWorker]
  /\ call = NoCall
  /\ resolved = Pending
  /\ mtime = InitMtime
  /\ data_dir \in InitDataDirs
  /\ traffic_log = UnwritableLog
  /\ exchange = NoExchange
  /\ webui = NoSessions
  /\ allowed_ips = refresh(data_dir)
  /\ oidc = NoFlows
  /\ primer = NoPrimer

NextAllowlist ==
  \/ \E account \in Accounts : CreateAccount(account)
  \/ \E account \in Accounts, device_id \in Devices, xml \in DeviceInfos :
       AddDevice(account, device_id, xml)
  \/ Refresh
  \/ \E ip \in AllowlistProbes : IsAllowed(ip)
  \/ \E kind \in {"GET", "POST", "WS"},
        ip \in AllowlistProbes \cup {"169.254.169.254"},
        outcome \in {200, 502, 504} : ProxySpeaker(kind, ip, outcome)

SpecAllowlist == InitAllowlist /\ [][NextAllowlist]_vars

\* The codec on the recents of one account, one call at a time.
InitRecents ==
  /\ soundcork_mode = "local"
  /\ now = 100
  /\ circuits = [u \in Upstreams |-> NoState]
  /\ tasks = [s \in Slots |-> IdleTask]
  /\ recents_file \in InitRecentsFiles
  /\ presets_file = <<>>
  /\ ret = NoRet
  /\ calls = 0
  /\ workers = [w \in Workers |-> IdleWorker]
  /\ call = NoCall
  /\ resolved = Pending
  /\ mtime = InitMtime
  /\ AuxIdle

NextRecents ==
  \/ \E source_xml \in RecentBodies : AddRecent(source_xml)
  \/ \E d \in TickSteps : Tick(d)

SpecRecents == InitRecents /\ [][NextRecents]_vars

\* The codec on the presets of one account, one call at a time.
InitPresets ==
  /\ soundcork_mode = "local"
  /\ now = 100
  /\ circuits = [u \in Upstreams |-> NoState]
  /\ tasks = [s \in Slots |-> IdleTask]
  /\ recents_file = <<>>
  /\ presets_file \in InitPresetsFiles
  /\ ret = NoRet
  /\ calls = 0
  /\ workers = [w \in Workers |-> IdleWorker]
  /\ call = NoCall
  /\ resolved = Pending
  /\ mtime = InitMtime
  /\ AuxIdle

NextPresets ==
  \E preset_number \in PresetNumbers, source_xml \in PresetBodies :
    UpdatePreset(preset_number, source_xml)

SpecPresets == InitPresets /\ [][NextPresets]_vars

\* Calls of several processes on the files of one account, one call each.
RaceRecentBodies ==
  { b \in RecentBodies :
      /\ b.lastplayedat = NoTime
      /\ b.sourceid \in {"2", "100001", "9"} }
RacePresetBodies ==
  { b \in PresetBodies :
      /\ b.sourceid \in {"1", "9"}
      /\ b.location = "a" /\ b.name = "WXRV" }
InitRace ==
  /\ soundcork_mode = "local"
  /\ now = 100
  /\ circuits = [u \in Upstreams |-> NoState]
  /\ tasks = [s \in Slots |-> IdleTask]
  /\ recents_file \in InitRecentsFiles
  /\ presets_file \in InitPresetsFiles
  /\ ret = NoRet
  /\ calls = 0
  /\ workers = [w \in Workers |-> IdleWorker]
  /\ call = NoCall
  /\ resolved = Pending
  /\ mtime = InitMtime
  /\ AuxIdle

NextRace ==
  \/ \E w \in Workers, source_xml \in RaceRecentBodies :
       add_recent_read(w, source_xml)
  \/ \E w \in Workers, preset_number \in {1, 2}, source_xml \in RacePresetBodies :
       update_preset_read(w, preset_number, source_xml)
  \/ \E w \in Workers : save(w)

SpecRace == InitRace /\ [][NextRace]_vars

\* content_item_source_xml over the ContentItems and source lists.
InitResolve ==
  /\ soundcork_mode = "local"
  /\ now = 0
  /\ circuits = [u \in Upstreams |-> NoState]
  /\ tasks = [s \in Slots |-> IdleTask]
  /\ recents_file = <<>>
  /\ presets_file = <<>>
  /\ ret = NoRet
  /\ calls = 0
  /\ workers = [w \in Workers |-> IdleWorker]
  /\ call \in [configured_sources : ConfiguredSourceLists,
                content_item : ContentItems]
  /\ resolved = Pending
  /\ mtime = InitMtime
  /\ AuxIdle

NextResolve == Resolve

SpecResolve == InitResolve /\ [][NextResolve]_vars

\* Writes to the presets and the recents of one account as the clock runs,
\* one call at a time.
InitStore ==
  /\ soundcork_mode = "local"
  /\ now = 100
  /\ circuits = [u \in Upstreams |-> NoState]
  /\ tasks = [s \in Slots |-> IdleTask]
  /\ recents_file \in InitRecentsFiles \ {<<>>, FullRecentsFile}
  /\ presets_file \in InitPresetsFiles \ {<<>>}
  /\ ret = NoRet
  /\ calls = 0
  /\ workers = [w \in Workers |-> IdleWorker]
  /\ call = NoCall
  /\ resolved = Pending
  /\ mtime = InitMtime
  /\ AuxIdle

NextStore ==
  \/ \E source_xml \in RaceRecentBodies : AddRecent(source_xml)
  \/ \E preset_number \in {1, 2}, source_xml \in RacePresetBodies :
       UpdatePreset(preset_number, source_xml)
  \/ \E d \in TickSteps : Tick(d)

SpecStore == InitStore /\ [][NextStore]_vars

\* Registrations and listings on the data directory.
InitRegistry ==
  /\ soundcork_mode = "local"
  /\ now = 0
  /\ circuits = [u \in Upstreams |-> NoState]
  /\ tasks = [s \in Slots |-> IdleTask]
  /\ recents_file = <<>>
  /\ presets_file = <<>>
  /\ ret = NoRet
  /\ calls = 0
  /\ workers = [w \in Workers |-> IdleWorker]
  /\ call = NoCall
  /\ resolved = Pending
  /\ mtime = InitMtime
  /\ data_dir \in InitDataDirs
  /\ traffic_log = UnwritableLog
  /\ exchange = NoExchange
  /\ webui = NoSessions
  /\ allowed_ips = {}
  /\ oidc = NoFlows
  /\ primer = NoPrimer

NextRegistry ==
  \/ \E account \in Accounts : CreateAccount(account)
  \/ \E account \in Accounts, device_id \in Devices, xml \in DeviceInfos :
       AddDevice(account, device_id, xml)
  \/ ListAccounts
  \/ \E account \in Accounts : ListDevices(account)

SpecRegistry == InitRegistry /\ [][NextRegistry]_vars

TypeOK ==
  /\ soundcork_mode \in {"proxy", "local"}
  /\ now \in 0..MaxTime
  /\ \A s \in Slots : tasks[s].pc \in {"idle", "upstream", "local", "done"}
  /\ calls \in 0..MaxCalls

\* ------------------------------------------------- vocabulary of the claims
\* path is mapped to upstream u: it equals a mapped prefix or continues it
\* after a "/".
MappedTo(path, u) ==
  \E i \in 1..Len(UPSTREAM_MAP) :
    /\ UPSTREAM_MAP[i].upstream = u
    /\ \/ path = UPSTREAM_MAP[i].prefix
       \/ /\ Len(path) > Len(UPSTREAM_MAP[i].prefix)
          /\ \A k \in 1..Len(UPSTREAM_MAP[i].prefix) : path[k] = UPSTREAM_MAP[i].prefix[k]
          /\ path[Len(UPSTREAM_MAP[i].prefix) + 1] = "/"

\* a forward that counts as failed: connection error, 404 or 5xx
IsFailureOutcome(out) == out = RequestError \/ out = 404 \/ out >= 500

\* the step in which a request arrives on task s
Arrives(s) == tasks[s].pc \in {"idle", "done"} /\ tasks'[s].pc \in {"local", "upstream"}

\* the step in which the forward of task s ends
ForwardEnds(s) == tasks[s].pc = "upstream" /\ tasks'[s].pc # "upstream"

\* the step in which the local handler of task s answers
LocalEnds(s) == tasks[s].pc = "local" /\ tasks'[s].pc = "done"

InWindow(u) == circuits[u].present /\ now - circuits[u].last_failure <= CIRCUIT_BREAKER_COOLDOWN

ServedLocallyUnforwarded(t) == t.pc = "local" /\ ~t.forwarded

\* ------------------------------------------------------------------ claims

\* C1 (as stated): after a failed forward to U, every request to a path of U
\* arriving within the cooldown of the last recorded failure is routed to the
\* local handler with no network attempt.
C1_Original ==
  [][\A s \in Slots, u \in Upstreams :
       (Arrives(s) /\ soundcork_mode = "proxy" /\ MappedTo(tasks'[s].req.path, u)
          /\ InWindow(u))
       => ServedLocallyUnforwarded(tasks'[s])]_vars

\* C1 (amended): the same, as long as U's circuit record is still open, that
\* is, no forward to U has completed successfully since that failure.
C1_Theorem ==
  [][\A s \in Slots, u \in Upstreams :
       (Arrives(s) /\ soundcork_mode = "proxy" /\ MappedTo(tasks'[s].req.path, u)
          /\ InWindow(u) /\ circuits[u].open)
       => ServedLocallyUnforwarded(tasks'[s])]_vars

C1_Witness ==
  \E s \in Slots :
    /\ tasks[s].pc = "local" /\ tasks[s].fallback = "circuit_open"
    /\ ~tasks[s].forwarded
    /\ circuits[tasks[s].upstream].open
    /\ now - circuits[tasks[s].upstream].last_failure = CIRCUIT_BREAKER_COOLDOWN

\* C2: once the cooldown has elapsed, at most one request to U is in flight
\* as the probe; every other request arriving before the probe's outcome is
\* recorded is served locally.
C2_Original ==
  \A u \in Upstreams :
    Cardinality({s \in Slots : tasks[s].pc = "upstream" /\ tasks[s].probe
                                /\ tasks[s].upstream = u}) <= 1

\* C3: a probe that succeeds leaves the circuit closed with failure count 0;
\* a probe that fails leaves it open, the count incremented and the cooldown
\* restarted at the time of this failure.
C3_Theorem ==
  [][\A s \in Slots :
       (ForwardEnds(s) /\ tasks[s].probe) =>
         LET u == tasks[s].upstream IN
         IF IsFailureOutcome(tasks'[s].upres)
         THEN /\ circuits'[u].open
              /\ circuits'[u].failures = circuits[u].failures + 1
              /\ circuits'[u].last_failure = now
         ELSE /\ ~circuits'[u].open
              /\ circuits'[u].failures = 0]_vars

C3_Witness ==
  \E s \in Slots :
    /\ tasks[s].probe /\ tasks[s].pc \in {"local", "done"}
    /\ IsFailureOutcome(tasks[s].upres)
    /\ circuits[tasks[s].upstream].open
    /\ circuits[tasks[s].upstream].failures = 2
    /\ circuits[tasks[s].upstream].last_failure > CIRCUIT_BREAKER_COOLDOWN

\* C4: a forwarded request whose upstream response is 404 or >= 500 is
\* answered with the local handler's status and body, also when the circuit
\* was closed.
C4_Theorem ==
  \A s \in Slots :
    (tasks[s].pc = "done" /\ tasks[s].forwarded
       /\ tasks[s].upres # RequestError
       /\ (tasks[s].upres = 404 \/ tasks[s].upres >= 500))
    => (tasks[s].resp.origin = "local"
          /\ tasks[s].resp.status \in LocalStatuses(tasks[s].req))

C4_Witness ==
  \E s \in Slots :
    /\ tasks[s].pc = "done" /\ tasks[s].forwarded /\ ~tasks[s].probe
    /\ tasks[s].upres = 404
    /\ tasks[s].resp.origin = "local"

\* C5 (as stated): every forwarded request ending in a connection error or a
\* non-2xx upstream response is answered by the local handler.
C5_Original ==
  \A s \in Slots :
    (tasks[s].pc = "done" /\ tasks[s].forwarded
       /\ (tasks[s].upres = RequestError \/ tasks[s].upres < 200 \/ tasks[s].upres > 299))
    => tasks[s].resp.origin = "local"

\* C5 (amended): every forwarded request ending in a connection error or in
\* an upstream 404 or >= 500 records a failure for that upstream and is answered
\* by the local handler.
C5_Theorem ==
  [][\A s \in Slots :
       /\ (ForwardEnds(s) /\ IsFailureOutcome(tasks'[s].upres)) =>
            LET u == tasks[s].upstream IN
            /\ circuits'[u].present /\ circuits'[u].open
            /\ circuits'[u].last_failure = now
            /\ circuits'[u].failures = circuits[u].failures + 1
            /\ tasks'[s].pc = "local"
       /\ (LocalEnds(s) /\ tasks[s].forwarded /\ IsFailureOutcome(tasks[s].upres)) =>
            tasks'[s].resp.origin = "local"]_vars

C5_Witness ==
  \E s \in Slots :
    /\ tasks[s].pc = "done" /\ tasks[s].forwarded
    /\ tasks[s].upres = 500 /\ tasks[s].fallback = "upstream_http"
    /\ tasks[s].resp.origin = "local"
    /\ circuits[tasks[s].upstream].failures >= 1

\* C6: requests skipped by the open circuit leave the circuit records
\* unchanged, and a request to U arriving more than the cooldown after the last
\* recorded failure is forwarded.
C6_Theorem ==
  [][\A s \in Slots :
       /\ (Arrives(s) /\ tasks'[s].fallback = "circuit_open") => circuits' = circuits
       /\ (LocalEnds(s) /\ tasks[s].fallback = "circuit_open") => circuits' = circuits
       /\ \A u \in Upstreams :
            (Arrives(s) /\ soundcork_mode = "proxy" /\ MappedTo(tasks'[s].req.path, u)
               /\ circuits[u].present
               /\ now - circuits[u].last_failure > CIRCUIT_BREAKER_COOLDOWN)
            => (tasks'[s].pc = "upstream" /\ tasks'[s].forwarded)]_vars

C6_Witness ==
  \E s, t \in Slots :
    /\ tasks[s].pc = "upstream" /\ tasks[s].probe
    /\ tasks[t].pc = "done" /\ tasks[t].fallback = "circuit_open"
    /\ circuits[tasks[s].upstream].open
    /\ circuits[tasks[s].upstream].failures = 1

\* C7: when a forwarded request to U completes with a response that is not a
\* failure, U's circuit is closed with failure count 0 right after, whatever the
\* other requests recorded meanwhile.
C7_Theorem ==
  [][\A s \in Slots :
       (ForwardEnds(s) /\ ~IsFailureOutcome(tasks'[s].upres)) =>
         /\ ~circuits'[tasks[s].upstream].open
         /\ circuits'[tasks[s].upstream].failures = 0]_vars

C7_Witness ==
  \E s, t \in Slots :
    /\ tasks[s].pc = "done" /\ tasks[s].resp.origin = "upstream" /\ ~tasks[s].probe
    /\ tasks[t].pc \in {"local", "done"} /\ tasks[t].fallback = "upstream_error"
    /\ now = 0
    /\ circuits[tasks[s].upstream].present
    /\ ~circuits[tasks[s].upstream].open
    /\ circuits[tasks[s].upstream].failures = 0

\* C8: a network attempt is made only in proxy mode for a path that equals a
\* mapped prefix or continues it after "/"; every other request is served by
\* the local handler and leaves every circuit record unchanged.
C8_Theorem ==
  [][\A s \in Slots :
       LET mapped == soundcork_mode = "proxy"
                       /\ \E u \in Upstreams : MappedTo(tasks'[s].req.path, u) IN
       /\ tasks'[s].forwarded => mapped
       /\ (Arrives(s) /\ ~mapped) =>
            (ServedLocallyUnforwarded(tasks'[s]) /\ circuits' = circuits)
       /\ (LocalEnds(s) /\ ~mapped) =>
            (tasks'[s].resp.origin = "local" /\ ~tasks'[s].forwarded
               /\ circuits' = circuits)]_vars

C8_Witness ==
  \E s \in Slots :
    /\ soundcork_mode = "proxy"
    /\ tasks[s].pc = "done" /\ tasks[s].req.path = MARGE \o <<"x">>
    /\ ~tasks[s].forwarded /\ tasks[s].resp.origin = "local"
    /\ circuits["https://streaming.bose.com"].present
    /\ ~circuits["https://streaming.bose.com"].open

IsMutation(r) == route(r) \in {"put_account_preset", "post_account_recent"}

IsReplayOf(body, e) ==
  \E k \in 1..Len(get_configured_sources(SourcesFile)) :
    LET src == get_configured_sources(SourcesFile)[k] IN
    /\ src.id = body.sourceid
    /\ e.source = src.source_key_type
    /\ e.location = body.location
    /\ e.sourceAccount = src.source_key_account

\* C10: an add_recent whose resolved (provider, location, provider account)
\* equals that of a stored entry leaves the stored list length unchanged and
\* puts that entry at position 0 with its timestamp updated.
C10_Original ==
  [][(calls' = calls + 1 /\ ret'.op = "add_recent" /\ ret'.arg.name # NoneVal
        /\ \E i \in 1..Len(recents_file) : IsReplayOf(ret'.arg, recents_file[i]))
     => /\ Len(recents_file') = Len(recents_file)
        /\ \E i \in 1..Len(recents_file) :
             /\ IsReplayOf(ret'.arg, recents_file[i])
             /\ recents_file'[1].id = recents_file[i].id
             /\ recents_file'[1].utcTime =
                  IF ret'.arg.lastplayedat # NoTime
                  THEN ret'.arg.lastplayedat ELSE now]_vars

\* the new entry that an add_recent step has put in the stored list
IsNewEntry(e) ==
  /\ e.id = ret'.id
  /\ e.location = ret'.arg.location
  /\ e.utcTime = ret'.lastplayedat

\* C11: when the stored list holds 10 entries and add_recent inserts an item
\* that matches none of them, the stored list has exactly 10 entries
\* afterwards, the new item is at position 0, and the entry that was removed
\* is the one with the oldest recency timestamp.
C11_Original ==
  [][(calls' = calls + 1 /\ ret'.op = "add_recent" /\ ret'.status = 200
        /\ Len(recents_file) = RecentsCap
        /\ \A i \in 1..Len(recents_file) : ~IsReplayOf(ret'.arg, recents_file[i]))
     => /\ Len(recents_file') = RecentsCap
        /\ IsNewEntry(recents_file'[1])
        /\ \A i \in 1..Len(recents_file) :
             (\A k \in 1..Len(recents_file') :
                recents_file'[k].id # recents_file[i].id)
             => \A j \in 1..Len(recents_file) :
                  recents_file[i].utcTime <= recents_file[j].utcTime]_vars

\* C12: in every state that add_recent operations reach from a stored list
\* that satisfies it, the stored list has at most 10 entries and is ordered
\* by recency timestamp, most recent first.
C12_Original ==
  /\ Len(recents_file) <= RecentsCap
  /\ \A i, j \in 1..Len(recents_file) :
       i < j => recents_file[i].utcTime >= recents_file[j].utcTime

\* a step of update_preset
IsUpdatePreset == calls' = calls + 1 /\ ret'.op = "update_preset"

\* C13: update_preset with a slot number below 1 or above the number of
\* stored presets returns a client error and leaves the stored presets
\* unchanged.
C13_Original ==
  [][(IsUpdatePreset /\ (ret'.slot < 1 \/ ret'.slot > Len(presets_file)))
     => /\ ret'.status \in 400..499
        /\ presets_file' = presets_file]_vars

\* the stored entry e carries the name, location and type of the body and
\* the provider type and account of the configured source src
Carries(e, body, src) ==
  /\ e.itemName = IF strip_element_text(body.name) = ""
                  THEN NoneVal ELSE strip_element_text(body.name)
  /\ e.location = strip_element_text(body.location)
  /\ e.type = strip_element_text(body.contentItemType)
  /\ e.source = src.source_key_type
  /\ e.sourceAccount =
       IF truthy(src.source_key_account) THEN src.source_key_account ELSE NoneVal

\* C14: a successful update_preset replaces exactly the slot it names: the
\* stored entry of that slot carries the body's name, location and type and
\* the provider type and account of the source the body names, every other
\* slot and the size are unchanged, and the response is the rendering of
\* that preset with buttonNumber = slot.
C14_Original ==
  [][(IsUpdatePreset /\ ret'.status = 200)
     => /\ Len(presets_file') = Len(presets_file)
        /\ \E i \in 1..Len(presets_file') :
             /\ presets_file'[i].id = ret'.slot
             /\ \E k \in 1..Len(get_configured_sources(SourcesFile)) :
                  LET src == get_configured_sources(SourcesFile)[k] IN
                  /\ src.id = strip_element_text(ret'.arg.sourceid)
                  /\ Carries(presets_file'[i], ret'.arg, src)
        /\ \A j \in 1..Len(presets_file) :
             presets_file[j].id # ret'.slot
             => /\ j <= Len(presets_file')
                /\ presets_file'[j] = presets_file[j]
        /\ ret'.preset.buttonNumber = ret'.slot
        /\ ret'.preset.name = strip_element_text(ret'.arg.name)
        /\ ret'.preset.location = strip_element_text(ret'.arg.location)
        /\ ret'.preset.source = strip_element_text(ret'.arg.sourceid)]_vars

\* the body names a source id that no configured source has
UnknownSource(body) ==
  /\ body.sourceid # NoneVal
  /\ \A k \in 1..Len(get_configured_sources(SourcesFile)) :
       get_configured_sources(SourcesFile)[k].id # body.sourceid

\* C15: a call whose sourceid matches no configured source of the account
\* returns status 400 and writes nothing to the store (stated on
\* update_preset, for bodies that have every required field).
C15_Original ==
  [][(IsUpdatePreset /\ UnknownSource(ret'.arg)
        /\ ret'.arg.name # NoneVal /\ ret'.arg.location # NoneVal)
     => /\ ret'.status = 400
        /\ presets_file' = presets_file]_vars

\* the body lacks one of the required fields
LacksRequired(body) ==
  body.name = NoneVal \/ body.sourceid = NoneVal \/ body.location = NoneVal

\* C16: a call given a body that lacks one of the required fields name,
\* source identifier, location returns a client error and leaves the store
\* unchanged (stated on update_preset, for a slot number that is in range).
C16_Original ==
  [][(IsUpdatePreset /\ LacksRequired(ret'.arg)
        /\ ret'.slot \in 1..Len(presets_file))
     => /\ ret'.status \in 400..499
        /\ presets_file' = presets_file]_vars

\* cs matches the ContentItem ci by (provider type, provider account), an
\* absent account on both sides counting as a match
PairMatches(cs, ci) ==
  /\ cs.source_key_type = ci.source
  /\ \/ cs.source_key_account = ci.source_account
     \/ (cs.source_key_account = "" /\ ci.source_account \in {NoneVal, ""})

\* C17: with a source_id the result is the configured source with that id,
\* whatever the (type, account) pair matches; without one it is a source
\* that matches by pair; when nothing matches it is the 400 client error.
C17_Theorem ==
  resolved # Pending =>
    LET cs == call.configured_sources
        ci == call.content_item
    IN IF ci.source_id # NoneVal
       THEN IF \E k \in 1..Len(cs) : cs[k].id = ci.source_id
            THEN resolved = ci.source_id
            ELSE resolved = NoneVal
       ELSE IF \E k \in 1..Len(cs) : PairMatches(cs[k], ci)
            THEN \E k \in 1..Len(cs) : PairMatches(cs[k], ci) /\ resolved = cs[k].id
            ELSE resolved = NoneVal

\* source id 7 is resolved while the source with id 3 matches by pair
C17_Witness ==
  /\ resolved = "7"
  /\ call.content_item.source_id = "7"
  /\ \E k \in 1..Len(call.configured_sources) :
       /\ call.configured_sources[k].id = "3"
       /\ PairMatches(call.configured_sources[k], call.content_item)

\* the fields of a rendered preset that a client puts back
RenderedFields(xml) ==
  [name |-> xml.name, sourceid |-> xml.source, location |-> xml.location,
   contentItemType |-> xml.contentItemType, containerArt |-> xml.containerArt]

\* two rendered presets agree in every field except the timestamps
SameButTimestamps(x, y) ==
  /\ x.buttonNumber = y.buttonNumber
  /\ x.containerArt = y.containerArt
  /\ x.contentItemType = y.contentItemType
  /\ x.location = y.location
  /\ x.name = y.name
  /\ x.source = y.source

\* C18: rendering a stored preset and feeding the rendered fields back
\* through update_preset for the same slot yields a rendering that equals
\* the first one in every field except the timestamps, and doing it again
\* changes nothing further.
C18_Original ==
  [][\A k \in 1..Len(presets_file) :
       LET first == preset_xml(get_presets(presets_file)[k],
                               get_configured_sources(SourcesFile))
       IN (/\ IsUpdatePreset
           /\ ~get_presets_raises(presets_file)
           /\ first.source # NoneVal
           /\ ret'.slot = first.buttonNumber
           /\ ret'.arg = RenderedFields(first))
          => /\ ret'.status = 200
             /\ SameButTimestamps(ret'.preset, first)
             /\ LET again == update_preset(presets_file', ret'.slot,
                                           RenderedFields(ret'.preset), now)
                IN /\ again.ret.status = 200
                   /\ SameButTimestamps(again.ret.preset, first)]_vars

\* process o saves after process w has saved, and each of the two had read
\* the file before the other saved
LaterSave(w, o) ==
  /\ w # o
  /\ workers[w].pc = "done" /\ workers[w].result.saved
  /\ o \in workers[w].overlapped
  /\ workers[o].pc = "read" /\ workers[o].result.saved
  /\ workers'[o].pc = "done"

\* what the call of process o leaves when it runs alone on the file it read
Alone(o) ==
  IF workers[o].op = "add_recent"
  THEN add_recent(workers[o].snapshot, workers[o].arg, workers[o].t)
  ELSE update_preset(workers[o].snapshot, workers[o].slot, workers[o].arg,
                     workers[o].t)

Recorded(u, failure) ==
  {s \in Slots : /\ ForwardEnds(s)
                 /\ tasks[s].upstream = u
                 /\ IsFailureOutcome(tasks'[s].upres) = failure}

\* C20: under any interleaving of concurrent requests to upstream U each
\* recorded failure increments the failure count of U by exactly one, a
\* recorded success of an open circuit resets it, and nothing else changes
\* it: the count is the number of failures recorded since the circuit of U
\* was last closed.
C20_Theorem ==
  [][\A u \in Upstreams :
       circuits'[u].failures =
         IF Recorded(u, FALSE) # {} THEN 0
         ELSE circuits[u].failures + Cardinality(Recorded(u, TRUE))]_vars

\* two requests were in flight together, both failed, and the count is 2
C20_Witness ==
  \E u \in Upstreams, s1, s2 \in Slots :
    /\ s1 # s2
    /\ now = 0
    /\ tasks[s1].upstream = u /\ tasks[s2].upstream = u
    /\ tasks[s1].forwarded /\ tasks[s2].forwarded
    /\ tasks[s1].fallback \in {"upstream_error", "upstream_http"}
    /\ tasks[s2].fallback \in {"upstream_error", "upstream_http"}
    /\ circuits[u].failures = 2

\* C21: whenever the change token of a constituent collection (presets,
\* recents or sources) of the account changes, etag_for_account changes as
\* well.
C21_Original ==
  [][(\/ etag_for_presets(mtime') # etag_for_presets(mtime)
      \/ etag_for_recents(mtime') # etag_for_recents(mtime)
      \/ etag_for_sources(mtime') # etag_for_sources(mtime))
     => etag_for_account(mtime') # etag_for_account(mtime)]_vars

\* C22: every successful write of the presets of the account makes
\* etag_for_presets strictly greater than it was before the write.
C22_Original ==
  [][(IsUpdatePreset /\ ret'.status = 200)
     => etag_for_presets(mtime') > etag_for_presets(mtime)]_vars

\* C23: create_account for an account that exists, and add_device for a
\* device that exists, return False without raising and leave the data
\* directory unchanged; and whatever a create_account or add_device did,
\* doing it again (with any device info) returns False and changes nothing.
C23_Theorem ==
  [][/\ (ret'.op = "create_account" /\ data_dir.exists
           /\ data_dir.accounts[ret'.account].exists)
        => /\ ret'.value = "False" /\ ret'.raised = NoException
           /\ data_dir' = data_dir
     /\ (ret'.op = "add_device" /\ data_dir.exists
           /\ data_dir.accounts[ret'.account].exists
           /\ data_dir.accounts[ret'.account].devices[ret'.device] # NoneVal)
        => /\ ret'.value = "False" /\ ret'.raised = NoException
           /\ data_dir' = data_dir
     /\ (ret'.op = "create_account" /\ ret'.raised = NoException)
        => LET again == create_account(data_dir', ret'.account)
           IN again.dir = data_dir' /\ again.value = "False"
                /\ again.raised = NoException
     /\ (ret'.op = "add_device" /\ ret'.raised = NoException)
        => \A xml \in DeviceInfos :
             LET again == add_device(data_dir', ret'.account, ret'.device, xml)
             IN again.dir = data_dir' /\ again.value = "False"
                  /\ again.raised = NoException]_vars

\* add_device was called for a device that exists, with another device info
\* than the stored one, and has returned False
C23_Witness ==
  /\ ret.op = "add_device"
  /\ ret.value = "False"
  /\ data_dir.accounts[ret.account].devices[ret.device] # ret.xml
  /\ data_dir.accounts[ret.account].devices[ret.device] # NoneVal

IsPrefix(a, b) == Len(a) <= Len(b) /\ SubSeq(b, 1, Len(a)) = a
LastEntry == traffic_log'.entries[Len(traffic_log'.entries)]
C25_Original ==
  [][(soundcork_mode = "proxy" /\ traffic_log.writable) =>
       /\ IsPrefix(traffic_log.entries, traffic_log'.entries)
       /\ \A s \in Slots :
            /\ (tasks[s].pc = "upstream" /\ tasks'[s].pc # "upstream")
               => /\ Len(traffic_log'.entries) = Len(traffic_log.entries) + 1
                  /\ LastEntry.upstream_url = tasks[s].upstream
                  /\ LastEntry.status =
                       IF tasks'[s].upres = RequestError THEN 502
                       ELSE tasks'[s].upres
            /\ (tasks[s].pc = "local" /\ tasks'[s].pc = "done")
               => /\ Len(traffic_log'.entries) = Len(traffic_log.entries) + 1
                  /\ LastEntry.upstream_url = "local"
                  /\ LastEntry.status = tasks'[s].resp.status
                  /\ tasks[s].fallback = "circuit_open"
                     => LastEntry.fallback = "circuit_open"
                  /\ tasks[s].forwarded
                     => LastEntry.fallback
                          \in {"upstream_error", "upstream_http_404",
                               "upstream_http_500"}]_vars

\* C26: no hop-by-hop header is in the request sent upstream nor among the
\* upstream response headers returned to the caller, and the upstream
\* content-length and content-encoding are not copied into the returned
\* response.
HopByHopNames ==
  {"host", "connection", "keep-alive", "transfer-encoding",
   "proxy-authenticate", "proxy-authorization", "te", "trailers", "upgrade"}
C26_Original ==
  /\ \A k \in exchange.fwd_headers : lower(k) \notin HopByHopNames
  /\ \A k \in exchange.return_headers :
       lower(k) \notin HopByHopNames \cup {"content-length", "content-encoding"}

\* C27: validate(id) returns the CSRF token that was issued with id exactly
\* when id was returned by a create and not destroyed since, and None
\* otherwise; destroying an id that is not a session changes nothing; after
\* a logout the id of the session is invalid.
C27_Theorem ==
  [][/\ \A id \in CookieValues :
          validate(webui'.sessions, id) =
            IF id \in webui'.live THEN webui'.issued[id] ELSE NoneVal
     /\ ret'.op = "validate"
        => ret'.value = IF ret'.session_id \in webui.live THEN webui.issued[ret'.session_id]
                        ELSE NoneVal
     /\ (ret'.op = "destroy" /\ ret'.session_id \notin webui.live)
        => webui'.sessions = webui.sessions
     /\ ret'.op = "logout"
        => validate(webui'.sessions, ret'.session_id) = NoneVal]_vars

\* a session was created and destroyed, and validate of its id has
\* returned None while another session is valid
C27_Witness ==
  /\ ret.op = "validate"
  /\ webui.issued[ret.session_id] # NoneVal
  /\ ret.session_id \notin webui.live
  /\ ret.value = NoneVal
  /\ webui.live # {}

\* The public paths and the paths under /webui as the claims name them.
IsWebuiPath(path) == startswith(path, WEBUI)
IsPublicPath(path) ==
  \/ path = WebuiLogin
  \/ path = WebuiApiLogin
  \/ startswith(path, WebuiStaticPrefix)

\* C28: a request to a non-public /webui path without a valid session
\* cookie is rejected before its handler, with 401 under /webui/api/ and
\* /webui/ws/ and a 302 redirect otherwise; public webui paths and paths
\* outside /webui are never rejected by this check.
C28_Original ==
  [][ret'.op = "webui_auth" =>
       LET request == ret'.request IN
       /\ (/\ IsWebuiPath(request.path) /\ ~IsPublicPath(request.path)
           /\ request.cookie \notin webui.live)
          => /\ ret'.rejected
             /\ ret'.status =
                  IF \/ startswith(request.path, WebuiApiPrefix)
                     \/ startswith(request.path, WebuiWsPrefix)
                  THEN 401 ELSE 302
       /\ (~IsWebuiPath(request.path) \/ IsPublicPath(request.path))
          => ~ret'.rejected]_vars

\* C29: with a valid session, a POST, PUT, DELETE or PATCH to a non-public
\* /webui path whose X-CSRF-Token header is missing or differs from the
\* token of the session is rejected with 403 before the handler; a GET is
\* never subject to the CSRF check.
C29_Original ==
  [][(ret'.op = "webui_auth" /\ ret'.request.scope = "http") =>
       LET request == ret'.request IN
       (/\ IsWebuiPath(request.path) /\ ~IsPublicPath(request.path)
        /\ request.cookie \in webui.live)
       => /\ (/\ request.method \in {"POST", "PUT", "DELETE", "PATCH"}
              /\ request.csrf # webui.issued[request.cookie])
             => ret'.rejected /\ ret'.status = 403
          /\ request.method = "GET" => ~ret'.rejected]_vars

\* C30: a request to a path other than "/" and the exempt prefixes whose
\* client ip (the first X-Forwarded-For entry if the header has a value,
\* the peer address otherwise) is not allowed by the speaker allowlist is
\* answered 403 and reaches no handler; an exempt path is never blocked.
IsExemptPath(path) ==
  \/ path = <<"/">>
  \/ \E p \in EXEMPT_PREFIXES : startswith(path, p)
ClientIp(request) ==
  IF request.forwarded.present /\ request.forwarded.entries # <<"">>
  THEN strip_entry(Head(request.forwarded.entries))
  ELSE request.peer
C30_Theorem ==
  [][ret'.op = "speaker_ip_restriction" =>
       LET request == ret'.request IN
       /\ (~IsExemptPath(request.path)
             /\ ~is_allowed(allowed_ips, ClientIp(request)))
          => ret'.rejected /\ ret'.status = 403
       /\ IsExemptPath(request.path) => ~ret'.rejected]_vars

\* a request to /scan with a forwarded address that is not allowed, from a
\* peer that is, was answered 403
C30_Witness ==
  /\ ret.op = "speaker_ip_restriction"
  /\ ~IsExemptPath(ret.request.path)
  /\ ret.request.forwarded.present
  /\ ~is_allowed(allowed_ips, ClientIp(ret.request))
  /\ is_allowed(allowed_ips, ret.request.peer)
  /\ ret.rejected /\ ret.status = 403

\* C31: is_allowed(ip) is true exactly when ip is a loopback address or
\* the address of a device registered in the datastore as of the last
\* refresh; every other ip is blocked, and the address of a device added
\* later is allowed after a refresh.
RegisteredIps(dir) ==
  { ip_address_of(dir.accounts[a].devices[d]) :
      <<a, d>> \in { <<a, d>> \in Accounts \X Devices :
                      /\ dir.exists /\ dir.accounts[a].exists
                      /\ dir.accounts[a].devices[d] # NoneVal } }
C31_Original ==
  [][/\ ret'.op = "refresh" => allowed_ips' = RegisteredIps(data_dir)
     /\ ret'.op # "refresh" => allowed_ips' = allowed_ips
     /\ ret'.op = "is_allowed"
        => (ret'.value = "True"
              <=> (ret'.ip \in {"127.0.0.1", "::1"} \/ ret'.ip \in allowed_ips))
    ]_vars

\* C32: the speaker proxy of the web UI (GET, POST and WebSocket) opens a
\* connection to ip only if ip is the address of a registered speaker in
\* the allowlist; for every other ip, loopback and link-local included, it
\* answers 403 (WebSocket: close code 4003) and opens no connection.
C32_Theorem ==
  [][ret'.op = "proxy_speaker" =>
       /\ ret'.outbound # NoneVal
          => ret'.outbound = ret'.ip /\ ret'.ip \in allowed_ips
       /\ ret'.ip \notin allowed_ips
          => /\ ret'.outbound = NoneVal
             /\ ret'.status = IF ret'.kind = "WS" THEN 4003 ELSE 403]_vars

\* a loopback request was refused while a speaker is registered
C32_Witness ==
  /\ ret.op = "proxy_speaker"
  /\ ret.ip = "127.0.0.1"
  /\ ret.status = 403
  /\ ret.outbound = NoneVal
  /\ allowed_ips # {}

\* C33: /auth/callback creates a webui session only when OIDC is enabled,
\* no error parameter is present, code and state are both present, the
\* state was issued by an earlier /auth/login and has not been consumed,
\* and the token exchange succeeds; in every other case it answers 302 to
\* /webui/login and creates no session; a state is consumed by the first
\* callback that presents it and never yields a second session.
GoesOn == ret'.op = "auth_callback" /\ ret'.status = 0
OneSessionPerState ==
  /\ \A st \in OidcStates : oidc'.yielded[st] <= 1
  /\ ret'.op = "token_exchange"
     => /\ ret'.session <=> webui'.live # webui.live
        /\ ~ret'.session
           => ret'.status = 302 /\ ret'.location = "/webui/login"
  /\ ret'.op = "auth_callback"
     => /\ webui' = webui
        /\ ~GoesOn => ret'.status = 302 /\ ret'.location = "/webui/login"
        /\ GoesOn => ret'.params.state \notin oidc'.pending
C33_Original ==
  [][/\ OneSessionPerState
     /\ ret'.op = "auth_callback"
        => (GoesOn <=> /\ oidc.enabled
                       /\ ret'.params.error = NoneVal
                       /\ truthy(ret'.params.code)
                       /\ truthy(ret'.params.state)
                       /\ ret'.params.state \in oidc.issued
                       /\ ret'.params.state \notin oidc.consumed)]_vars

\* C33, amended: as C33, with "no error parameter is present" read as the
\* error parameter is missing or empty, and "code and state are present"
\* as both are not empty.
C33_Theorem ==
  [][/\ OneSessionPerState
     /\ ret'.op = "auth_callback"
        => (GoesOn <=> /\ oidc.enabled
                       /\ ~truthy(ret'.params.error)
                       /\ truthy(ret'.params.code)
                       /\ truthy(ret'.params.state)
                       /\ ret'.params.state \in oidc.issued
                       /\ ret'.params.state \notin oidc.consumed)]_vars

\* a state has given a session, and a second callback that presented it
\* was sent to the login page
C33_Witness ==
  /\ ret.op = "auth_callback"
  /\ ret.params.state \in OidcStates
  /\ oidc.yielded[ret.params.state] = 1
  /\ truthy(ret.params.code) /\ ~truthy(ret.params.error)
  /\ ret.status = 302 /\ ret.location = "/webui/login"

\* C34: every circuit record is open exactly when its failure count is at
\* least 1 (a closed record has failure count 0), and the last-failure time
\* of a record is the time of the most recently recorded failure: a step
\* that records a failure sets it to the time of the step, and no other
\* step changes it.
OpenIffFailed(cs) ==
  \A u \in Upstreams :
    cs[u].present => (cs[u].open <=> cs[u].failures >= 1)
               /\ (~cs[u].open => cs[u].failures = 0)
C34_Theorem ==
  [][/\ OpenIffFailed(circuits) /\ OpenIffFailed(circuits')
     /\ \A u \in Upstreams :
          IF circuits'[u].failures > circuits[u].failures
          THEN circuits'[u].open /\ circuits'[u].last_failure = now
          ELSE circuits'[u].last_failure = circuits[u].last_failure]_vars

\* a circuit is open after a second failure that came later than the first
C34_Witness ==
  \E u \in Upstreams :
    /\ circuits[u].open /\ circuits[u].failures = 2
    /\ circuits[u].last_failure > 0 /\ circuits[u].last_failure = now

\* the body names a configured source and has a name and a location
NamesSource(body) ==
  /\ body.name # NoneVal /\ body.location # NoneVal
  /\ \E k \in 1..Len(get_configured_sources(SourcesFile)) :
       get_configured_sources(SourcesFile)[k].id = body.sourceid
DistinctIds(file) ==
  \A i, j \in 1..Len(file) : i # j => file[i].id # file[j].id

\* C35: for every stored recents list, the empty list included, an
\* add_recent of an item that matches no stored entry succeeds, stores the
\* new entry at position 0 with id = max(existing ids) + 1, and the stored
\* ids stay pairwise distinct.
C35_Original ==
  [][(calls' = calls + 1 /\ ret'.op = "add_recent" /\ NamesSource(ret'.arg)
        /\ DistinctIds(recents_file)
        /\ \A i \in 1..Len(recents_file) : ~IsReplayOf(ret'.arg, recents_file[i]))
     => /\ ret'.status = 200
        /\ Len(recents_file') >= 1
        /\ recents_file'[1].location = ret'.arg.location
        /\ recents_file # <<>>
           => recents_file'[1].id = max_id(get_recents(recents_file)) + 1
        /\ DistinctIds(recents_file')]_vars

\* the stored entry e is the item of the body: the provider and account of
\* the source the body names (no account attribute for an empty account)
\* and the location of the body
IsItemOf(body, e) ==
  \E k \in 1..Len(get_configured_sources(SourcesFile)) :
    LET src == get_configured_sources(SourcesFile)[k] IN
    /\ src.id = body.sourceid
    /\ e.source = src.source_key_type
    /\ e.location = body.location
    /\ e.sourceAccount = IF src.source_key_account = ""
                         THEN NoneVal ELSE src.source_key_account

\* C36: posting the same item (same sourceid and location) twice in
\* succession never leaves two stored entries of it, for every configured
\* source, a source with an empty account included, whose stored entry
\* carries no account attribute.
C36_Original ==
  [][(calls' = calls + 1 /\ ret'.op = "add_recent" /\ ret'.status = 200
        /\ ret.op = "add_recent" /\ ret.status = 200
        /\ ret'.arg.sourceid = ret.arg.sourceid
        /\ ret'.arg.location = ret.arg.location)
     => /\ \A i, j \in 1..Len(recents_file') :
             (IsItemOf(ret'.arg, recents_file'[i])
                /\ IsItemOf(ret'.arg, recents_file'[j])) => i = j
        /\ \E i \in 1..Len(recents_file') :
             IsItemOf(ret'.arg, recents_file'[i])]_vars

\* C37: after a successful update_preset(slot) on stored presets whose ids
\* are pairwise distinct (ids with gaps included), exactly one stored preset
\* has the id slot, the one just written, and the ids are still pairwise
\* distinct.
C37_Original ==
  [][(IsUpdatePreset /\ ret'.status = 200 /\ DistinctIds(presets_file))
     => /\ \E i \in 1..Len(presets_file') :
             /\ presets_file'[i].id = ret'.slot
             /\ presets_file'[i].location = strip_element_text(ret'.arg.location)
             /\ \A j \in 1..Len(presets_file') :
                  presets_file'[j].id = ret'.slot => j = i
        /\ DistinctIds(presets_file')]_vars

\* C38: the source rendered in the response of update_preset (add_recent),
\* selected by the sourceid of the request, is the source that a later
\* presets_xml (recents_xml) renders for the stored item once it is read
\* back from the store, for every list of configured sources.
C38_Original ==
  [][/\ (IsUpdatePreset /\ ret'.status = 200)
        => \A i \in 1..Len(presets_file') :
             presets_file'[i].id = ret'.slot
             => presets_xml(presets_file',
                            get_configured_sources(SourcesFile))[i].source
                  = ret'.preset.source
     /\ (calls' = calls + 1 /\ ret'.op = "add_recent" /\ ret'.status = 200)
        => \A i \in 1..Len(recents_file') :
             recents_file'[i].id = ret'.id
             => recents_xml(recents_file',
                            get_configured_sources(SourcesFile))[i].source
                  = ret'.source]_vars

\* C39: whenever update_preset or add_recent ends with an error of any
\* kind, a failure while rendering the response included, the stored
\* presets and recents are what they were before the call.
C39_Original ==
  [][(calls' = calls + 1 /\ ret'.op \in {"update_preset", "add_recent"}
        /\ ret'.status # 200)
     => presets_file' = presets_file /\ recents_file' = recents_file]_vars

\* C40: once stop_periodic has returned, no periodic tick is scheduled or
\* run again, under every interleaving, also when a tick was executing at
\* the moment stop_periodic was called: no timer is created or started and
\* no timer fires.
C40_Original ==
  [][primer.stopped
     => \A y \in TimerIds :
          primer'.timers[y] # primer.timers[y]
          => primer'.timers[y] \notin {"created", "waiting", "running"}]_vars
====
